---- MODULE Spec2Model ----
(***************************************************************************)
(* A model of the PubliKey agent's SSH key reconciliation                  *)
(* (src/src/ssh_keys.rs, with collect_users of src/src/users.rs): key      *)
(* parsing, the user list, discovery of authorized_keys files,             *)
(* the read / diff / write cycle of sync_ssh_keys and the temp-file +      *)
(* rename commit of write_authorized_keys_file.                            *)
(* The invocation around it is modelled at the end: main and               *)
(* run_report_cycle (src/src/main.rs), report_with_retry (src/src/api.rs)  *)
(* and the self-update (src/src/update.rs).                                *)
(*                                                                         *)
(* Text.  A string is a sequence of atoms.  An atom is one character       *)
(* (" ", "#", "%", "/", ".", "h", "u") or an opaque run of characters that *)
(* holds none of these separators (a word such as "ssh-rsa", "alice").     *)
(* Base64 atoms stand for whole 4-character groups, so that a word of      *)
(* several of them decodes group by group.                                 *)
(***************************************************************************)
EXTENDS Integers, Sequences, FiniteSets, TLC

(***************************************************************************)
(* Option and Result values.                                               *)
(***************************************************************************)
None == [some |-> FALSE, val |-> <<>>]
Some(v) == [some |-> TRUE, val |-> v]

(***************************************************************************)
(* str helpers: trim, split_whitespace, join, starts_with.                 *)
(***************************************************************************)
SP == " "

RECURSIVE TrimStart(_)
TrimStart(s) ==
  IF s # <<>> /\ Head(s) = SP THEN TrimStart(Tail(s)) ELSE s

RECURSIVE TrimEnd(_)
TrimEnd(s) ==
  IF s # <<>> /\ s[Len(s)] = SP THEN TrimEnd(SubSeq(s, 1, Len(s) - 1)) ELSE s

Trim(s) == TrimEnd(TrimStart(s))

\* str::split_whitespace: the maximal runs of non-whitespace atoms, in order.
RECURSIVE SplitWs(_, _, _)
SplitWs(s, cur, acc) ==
  IF s = <<>> THEN (IF cur = <<>> THEN acc ELSE Append(acc, cur))
  ELSE IF Head(s) = SP
       THEN SplitWs(Tail(s), <<>>, IF cur = <<>> THEN acc ELSE Append(acc, cur))
       ELSE SplitWs(Tail(s), Append(cur, Head(s)), acc)

split_whitespace(s) == SplitWs(s, <<>>, <<>>)

\* [&str]::join(" ")
RECURSIVE JoinSp(_)
JoinSp(parts) ==
  IF parts = <<>> THEN <<>>
  ELSE IF Len(parts) = 1 THEN parts[1]
  ELSE parts[1] \o <<SP>> \o JoinSp(Tail(parts))

(***************************************************************************)
(* SshKey (ssh_keys.rs 13-148)                                             *)
(***************************************************************************)
ALLOWED_KEY_TYPES ==
  { <<"ssh-rsa">>, <<"ssh-dss">>, <<"ssh-ed25519">>,
    <<"ecdsa-sha2-nistp256">>, <<"ecdsa-sha2-nistp384">>,
    <<"ecdsa-sha2-nistp521">>, <<"sk-ssh-ed25519@openssh.com">>,
    <<"sk-ecdsa-sha2-nistp256@openssh.com">> }

\* Faulty variant: every first field is accepted as a key type.
validate_key_type_any(key_type) == TRUE

validate_key_type(key_type) == key_type \in ALLOWED_KEY_TYPES

\* The standard base64 engine on whole 4-character groups: each valid group
\* decodes to its own three bytes (named by a number), every other atom is
\* rejected.  Decoding is injective, as canonical padded base64 is.
B64Groups == { "AAAA", "AAAB", "AAAC", "AAAD" }

B64Bytes(g) ==
  CASE g = "AAAA" -> 0
    [] g = "AAAB" -> 1
    [] g = "AAAC" -> 2
    [] g = "AAAD" -> 3

RECURSIVE B64DecodeGroups(_)
B64DecodeGroups(w) ==
  IF w = <<>> THEN <<>> ELSE <<B64Bytes(Head(w))>> \o B64DecodeGroups(Tail(w))

\* engine.decode: Ok(bytes) or Err
base64_decode(w) ==
  IF \A i \in 1..Len(w) : w[i] \in B64Groups
  THEN [ok |-> TRUE, bytes |-> B64DecodeGroups(w)]
  ELSE [ok |-> FALSE, bytes |-> <<>>]

validate_key_data(key_data) == base64_decode(key_data).ok

\* Faulty variant: the key type is digested with the payload.
calculate_fingerprint_typed(key_type, key_data) ==
  <<"SHA256:", key_type \o base64_decode(key_data).bytes>>

\* "SHA256:" + base64(sha256(decoded bytes)); the digest is taken to be
\* collision free, so it is named by the bytes it digests.
calculate_fingerprint(key_type, key_data) ==
  <<"SHA256:", base64_decode(key_data).bytes>>

ParseErr == [ok |-> FALSE, key_type |-> <<>>, key_data |-> <<>>,
             comment |-> None, fingerprint |-> <<>>]

parse(line0) ==
  LET line == Trim(line0)
      parts == split_whitespace(line)
  IN IF line = <<>> \/ Head(line) = "#" THEN ParseErr
     ELSE IF Len(parts) < 2 THEN ParseErr
     ELSE LET key_type == parts[1]
              key_data == parts[2]
              comment == IF Len(parts) > 2
                         THEN Some(JoinSp(SubSeq(parts, 3, Len(parts))))
                         ELSE None
          IN IF ~validate_key_type(key_type) THEN ParseErr
             ELSE IF ~validate_key_data(key_data) THEN ParseErr
             ELSE [ok |-> TRUE, key_type |-> key_type, key_data |-> key_data,
                   comment |-> comment,
                   fingerprint |-> calculate_fingerprint(key_type, key_data)]

\* Faulty variant: the comment is not rendered.
to_string_without_comment(key) == key.key_type \o <<SP>> \o key.key_data

to_string(key) ==
  IF key.comment.some
  THEN key.key_type \o <<SP>> \o key.key_data \o <<SP>> \o key.comment.val
  ELSE key.key_type \o <<SP>> \o key.key_data

(***************************************************************************)
(* Paths.  A PathBuf is the sequence of its components (all paths here are *)
(* absolute); Path equality and the file system compare components, so     *)
(* repeated separators and "." components do not distinguish two paths.    *)
(***************************************************************************)
RECURSIVE SplitSlash(_, _, _)
SplitSlash(s, cur, acc) ==
  LET flush == IF cur = <<>> \/ cur = <<".">> THEN acc ELSE Append(acc, cur)
  IN IF s = <<>> THEN flush
     ELSE IF Head(s) = "/" THEN SplitSlash(Tail(s), <<>>, flush)
     ELSE SplitSlash(Tail(s), Append(cur, Head(s)), acc)

\* PathBuf::from
PathFrom(s) == SplitSlash(s, <<>>, <<>>)

\* PathBuf::join with a relative argument
PathJoin(base, rel) == base \o PathFrom(rel)

\* Path::parent
parent(path) == SubSeq(path, 1, Len(path) - 1)

\* The index of the last "." of a file name, 0 when there is none.
RECURSIVE LastDot(_, _)
LastDot(name, i) ==
  IF i = 0 THEN 0 ELSE IF name[i] = "." THEN i ELSE LastDot(name, i - 1)

\* Path::file_stem: the name up to its last ".", the whole name when it has
\* no "." or only a leading one.
file_stem(name) ==
  LET d == LastDot(name, Len(name))
  IN IF d <= 1 THEN name ELSE SubSeq(name, 1, d - 1)

\* Path::with_extension: the extension of the file name is REPLACED.
with_extension(path, ext) ==
  SubSeq(path, 1, Len(path) - 1)
    \o << file_stem(path[Len(path)]) \o <<".">> \o ext >>

\* str::replace of the two-atom token <<"%", c>> by `by`, left to right.
RECURSIVE replace(_, _, _)
replace(s, c, by) ==
  IF Len(s) < 2 THEN s
  ELSE IF s[1] = "%" /\ s[2] = c
       THEN by \o replace(SubSeq(s, 3, Len(s)), c, by)
       ELSE <<s[1]>> \o replace(Tail(s), c, by)

\* The text of a path: "/" before every component.
RECURSIVE to_string_lossy(_)
to_string_lossy(path) ==
  IF path = <<>> THEN <<>>
  ELSE <<"/">> \o Head(path) \o to_string_lossy(Tail(path))

expand_authorized_keys_pattern(pattern, username, home_dir) ==
  LET e1 == replace(pattern, "h", to_string_lossy(home_dir))
      e2 == replace(e1, "u", username)
      expanded == replace(e2, "%", <<"%">>)
  IN IF expanded # <<>> /\ Head(expanded) = "/"
     THEN PathFrom(expanded)
     ELSE PathJoin(home_dir, expanded)

(***************************************************************************)
(* The file system: the files and the directories that exist, by path.     *)
(* A file has content (its lines), a mode and an owner; a directory a mode *)
(* and an owner.                                                           *)
(***************************************************************************)
Put(f, k, v) == [x \in (DOMAIN f) \cup {k} |-> IF x = k THEN v ELSE f[x]]
Del(f, k) == [x \in (DOMAIN f) \ {k} |-> f[x]]

\* Modes a fresh file / directory gets from open(2) / mkdir(2) under the
\* usual umask 022.
UmaskFileMode == "0644"
UmaskDirMode == "0755"

FileExists(fs, p) == p \in DOMAIN fs.files
DirExists(fs, p) == p \in DOMAIN fs.dirs
\* Path::exists
PathExists(fs, p) == FileExists(fs, p) \/ DirExists(fs, p)

\* fs::create_dir_all
FsCreateDirAll(fs, dir, euid) ==
  IF DirExists(fs, dir) THEN fs
  ELSE [fs EXCEPT !.dirs =
          Put(@, dir, [mode |-> UmaskDirMode, uid |-> euid, gid |-> euid])]

\* fs::set_permissions on a directory
FsChmodDir(fs, dir, mode) ==
  [fs EXCEPT !.dirs = Put(@, dir, [@[dir] EXCEPT !.mode = mode])]

\* fs::File::create: O_CREAT | O_TRUNC.  An existing file is truncated in
\* place and keeps its mode and owner.
FsCreate(fs, p, euid) ==
  IF FileExists(fs, p)
  THEN [fs EXCEPT !.files = Put(@, p, [@[p] EXCEPT !.content = <<>>])]
  ELSE [fs EXCEPT !.files =
          Put(@, p, [content |-> <<>>, mode |-> UmaskFileMode,
                     uid |-> euid, gid |-> euid])]

\* write(2) at offset 0 of the file now at path p: the bytes written
\* replace what is there and anything longer stays behind them.
FsWriteAt(fs, p, lines) ==
  LET old == fs.files[p].content
      rest == IF Len(old) > Len(lines)
              THEN SubSeq(old, Len(lines) + 1, Len(old)) ELSE <<>>
  IN [fs EXCEPT !.files = Put(@, p, [@[p] EXCEPT !.content = lines \o rest])]

\* File::set_permissions (fchmod) on the file now at path p
FsChmodAt(fs, p, mode) ==
  [fs EXCEPT !.files = Put(@, p, [@[p] EXCEPT !.mode = mode])]

\* fs::rename: the file at `from` replaces whatever is at `to` in one
\* step; renaming a path to itself changes nothing.
FsRename(fs, from, to) ==
  IF from = to THEN fs
  ELSE [fs EXCEPT !.files = Del(Put(@, to, @[from]), from)]

\* chown(2) of a file / of a directory
FsChownFile(fs, p, uid, gid) ==
  [fs EXCEPT !.files = Put(@, p, [@[p] EXCEPT !.uid = uid, !.gid = gid])]
FsChownDir(fs, p, uid, gid) ==
  [fs EXCEPT !.dirs = Put(@, p, [@[p] EXCEPT !.uid = uid, !.gid = gid])]

(***************************************************************************)
(* SshKeyManager (ssh_keys.rs 150-553)                                     *)
(***************************************************************************)
\* SshKeyManager::new: the managed marker, "# PubliKey managed - do not
\* edit manually".
managed_marker ==
  <<"#", SP, "PubliKey", SP, "managed", SP, "-", SP, "do", SP, "not", SP,
    "edit", SP, "manually">>

\* Faulty variant: the recorded home is used for uid 0 as well.
user_home_recorded_first(user) ==
  IF user.home_dir.some THEN PathFrom(user.home_dir.val)
  ELSE IF user.uid = 0 THEN PathFrom(<<"/", "root">>)
  ELSE PathJoin(PathFrom(<<"/", "home">>), user.username)

\* The home directory discovery uses for a user.
user_home(user) ==
  IF user.uid = 0 THEN PathFrom(<<"/", "root">>)
  ELSE IF user.home_dir.some THEN PathFrom(user.home_dir.val)
  ELSE PathJoin(PathFrom(<<"/", "home">>), user.username)

\* The entries discovery pushes for one user: one per pattern, in pattern
\* order, each tagged with whether its path exists now.
RECURSIVE DiscoverUser(_, _, _)
DiscoverUser(fs, user, pats) ==
  IF pats = <<>> THEN <<>>
  ELSE LET expanded_path ==
             expand_authorized_keys_pattern(Head(pats), user.username,
                                            user_home(user))
       IN << [path |-> expanded_path, username |-> user.username,
              uid |-> user.uid, exists |-> PathExists(fs, expanded_path)] >>
          \o DiscoverUser(fs, user, Tail(pats))

RECURSIVE discover_authorized_keys_files(_, _, _)
discover_authorized_keys_files(fs, us, pats) ==
  IF us = <<>> THEN <<>>
  ELSE DiscoverUser(fs, Head(us), pats)
       \o discover_authorized_keys_files(fs, Tail(us), pats)

\* The lines of a file that SshKey::parse accepts, parsed, in file order.
RECURSIVE ParseLines(_)
ParseLines(lines) ==
  IF lines = <<>> THEN <<>>
  ELSE LET k == parse(Head(lines))
       IN (IF k.ok THEN <<k>> ELSE <<>>) \o ParseLines(Tail(lines))

\* read_authorized_keys: Ok(keys) or Err.  `read_fails` is the environment
\* refusing the read; a path tagged as existing that holds no file is an
\* error of its own.
read_authorized_keys(fs, file, read_fails) ==
  IF ~file.exists THEN [ok |-> TRUE, keys |-> <<>>]
  ELSE IF read_fails \/ ~FileExists(fs, file.path)
       THEN [ok |-> FALSE, keys |-> <<>>]
       ELSE [ok |-> TRUE, keys |-> ParseLines(fs.files[file.path].content)]

\* Faulty variant: keys are compared as whole lines (type, data, comment)
\* instead of by fingerprint.
NotIn_by_line(s, other) ==
  SelectSeq(s, LAMBDA k : \A j \in 1..Len(other) : other[j] # k)

\* The elements of s whose fingerprint no element of `other` has, in the
\* order of s (the filter of keys_to_add and of keys_to_remove).
RECURSIVE NotIn(_, _)
NotIn(s, other) ==
  IF s = <<>> THEN <<>>
  ELSE (IF \E j \in 1..Len(other) : other[j].fingerprint = Head(s).fingerprint
        THEN <<>> ELSE <<Head(s)>>)
       \o NotIn(Tail(s), other)

\* Faulty variant: the assignments are not grouped by user.
AssignmentsOf_any_user(asgs, username) == asgs

\* The assignments of one user, in the order of the assignment list
\* (assignments_by_user.get(username), empty when there is none).
RECURSIVE AssignmentsOf(_, _)
AssignmentsOf(asgs, username) ==
  IF asgs = <<>> THEN <<>>
  ELSE (IF Head(asgs).username = username THEN <<Head(asgs)>> ELSE <<>>)
       \o AssignmentsOf(Tail(asgs), username)

assignment_to_ssh_key(assignment) == parse(assignment.public_key)

\* Faulty variant: only the first assignment of a user is converted.
TargetKeys_first_only(asgs) ==
  IF asgs = <<>> \/ ~parse(Head(asgs).public_key).ok THEN <<>>
  ELSE <<parse(Head(asgs).public_key)>>

\* target_keys: the assignments that parse, in assignment order.
RECURSIVE TargetKeys(_)
TargetKeys(asgs) ==
  IF asgs = <<>> THEN <<>>
  ELSE LET k == assignment_to_ssh_key(Head(asgs))
       IN (IF k.ok THEN <<k>> ELSE <<>>) \o TargetKeys(Tail(asgs))

\* The number of assignments that do not parse (stats.errors of
\* sync_user_keys).
RECURSIVE InvalidCount(_)
InvalidCount(asgs) ==
  IF asgs = <<>> THEN 0
  ELSE (IF assignment_to_ssh_key(Head(asgs)).ok THEN 0 ELSE 1)
       + InvalidCount(Tail(asgs))

\* The content write_authorized_keys_file renders: the header, then one
\* line per key.
RECURSIVE KeyLines(_)
KeyLines(keys) ==
  IF keys = <<>> THEN <<>>
  ELSE <<to_string(Head(keys))>> \o KeyLines(Tail(keys))

HeaderLines ==
  << managed_marker,
     <<"#", SP, "This", SP, "file", SP, "is", SP, "managed", SP, "by", SP,
       "PubliKey", SP, "Agent">>,
     <<"#", SP, "Manual", SP, "changes", SP, "will", SP, "be", SP,
       "overwritten">>,
     <<>> >>

RenderContent(keys) == HeaderLines \o KeyLines(keys)

\* get_user_primary_gid: the gid the account database records for a uid.
\* alice (1000) is recorded with gid 100; bob (1001) has no passwd entry
\* that parses, so the lookup yields None.
get_user_primary_gid(uid) ==
  IF uid = 0 THEN Some(0)
  ELSE IF uid = 1000 THEN Some(100)
  ELSE None

temp_path_of(path) == with_extension(path, <<"tmp">>)

\* Faulty variant: the temporary file keeps a group/world readable mode.
FileMode_0644 == "0644"

\* Permissions::from_mode(0o700) of the directory (463) and
\* Permissions::from_mode(0o600) of the temporary file (488).
DirMode == "0700"
FileMode == "0600"

\* The points at which the environment can refuse an operation of
\* sync_user_keys / write_authorized_keys_file.
NoFail == "none"
FailPoints ==
  { "read", "mkdir", "chmod_dir", "create", "write", "write_partial",
    "chmod_tmp", "rename", "chown_dir", "chown_file" }

\* write_authorized_keys_file as one call: Ok or Err, and the file system
\* it leaves.  `fail` names the operation the environment refuses, if any.
write_authorized_keys_file(fs, file, keys, euid, fail) ==
  LET ssh_dir == parent(file.path)
      temp_path == temp_path_of(file.path)
      content == RenderContent(keys)
      need_dir == ~PathExists(fs, ssh_dir)
      f1 == IF need_dir THEN FsCreateDirAll(fs, ssh_dir, euid) ELSE fs
      f2 == FsChmodDir(f1, ssh_dir, DirMode)
      f3 == FsCreate(f2, temp_path, euid)
      f4 == FsWriteAt(f3, temp_path, content)
      f5 == FsChmodAt(f4, temp_path, FileMode)
      f6 == FsRename(f5, temp_path, file.path)
      gidopt == get_user_primary_gid(file.uid)
      gid == IF gidopt.some THEN gidopt.val ELSE file.uid
      f7 == IF euid = 0 /\ fail # "chown_dir"
            THEN FsChownDir(f6, ssh_dir, file.uid, gid) ELSE f6
      f8 == IF euid = 0 /\ fail # "chown_file"
            THEN FsChownFile(f7, file.path, file.uid, gid) ELSE f7
  IN IF need_dir /\ fail = "mkdir" THEN [ok |-> FALSE, fs |-> fs]
     ELSE IF fail = "chmod_dir" THEN [ok |-> FALSE, fs |-> f1]
     ELSE IF fail = "create" THEN [ok |-> FALSE, fs |-> f2]
     ELSE IF fail = "write" THEN [ok |-> FALSE, fs |-> f3]
     ELSE IF fail = "write_partial"
          THEN [ok |-> FALSE, fs |-> FsWriteAt(f3, temp_path, HeaderLines)]
     ELSE IF fail = "chmod_tmp" THEN [ok |-> FALSE, fs |-> f4]
     ELSE IF fail = "rename" THEN [ok |-> FALSE, fs |-> f5]
     ELSE [ok |-> TRUE, fs |-> f8]

ZeroStats ==
  [users_processed |-> 0, keys_added |-> 0, keys_removed |-> 0,
   files_updated |-> 0, errors |-> 0]

\* Faulty variant: the early return is missing, every file is rewritten.
NoChanges_never(keys_to_add, keys_to_remove) == FALSE

\* Faulty variant: a file is only rewritten when there is a key to add.
NoChanges_nothing_to_add(keys_to_add, keys_to_remove) == keys_to_add = <<>>

\* "If no changes needed, skip file update" (401).
NoChanges(keys_to_add, keys_to_remove) ==
  keys_to_add = <<>> /\ keys_to_remove = <<>>

\* Faulty variant: dry_run is not consulted.
ShouldWrite_always(dry) == TRUE

\* "Write updated authorized_keys file (unless dry run)" (424).
ShouldWrite(dry) == ~dry

\* Faulty variant: only the new keys are written (an incremental update).
KeysToWrite_added_only(target_keys, keys_to_add) == keys_to_add

\* The keys handed to write_authorized_keys_file (425): the whole target.
KeysToWrite(target_keys, keys_to_add) == target_keys

\* sync_user_keys as one call: Ok(stats) or Err, the file system it leaves,
\* whether it called write_authorized_keys_file, and the existing keys,
\* keys_to_add and keys_to_remove it computed (387-394).
sync_user_keys(fs, file, asgs, dry, euid, fail) ==
  LET rd == read_authorized_keys(fs, file, fail = "read")
      existing_keys == rd.keys
      target_keys == TargetKeys(asgs)
      keys_to_add == NotIn(target_keys, existing_keys)
      keys_to_remove == NotIn(existing_keys, target_keys)
      st == [users_processed |-> 1,
             keys_added |-> Len(keys_to_add),
             keys_removed |-> Len(keys_to_remove),
             files_updated |-> 0,
             errors |-> InvalidCount(asgs)]
      wr == write_authorized_keys_file(fs, file,
                                       KeysToWrite(target_keys, keys_to_add),
                                       euid, fail)
      diff == [existing |-> existing_keys, keys_to_add |-> keys_to_add,
               keys_to_remove |-> keys_to_remove]
      nodiff == [existing |-> <<>>, keys_to_add |-> <<>>, keys_to_remove |-> <<>>]
  IN IF ~rd.ok
     THEN [ok |-> FALSE, stats |-> ZeroStats, fs |-> fs, wrote |-> FALSE,
           diff |-> nodiff]
     ELSE IF NoChanges(keys_to_add, keys_to_remove)
     THEN [ok |-> TRUE, stats |-> st, fs |-> fs, wrote |-> FALSE, diff |-> diff]
     ELSE IF ShouldWrite(dry)
     THEN IF wr.ok
          THEN [ok |-> TRUE, stats |-> [st EXCEPT !.files_updated = 1],
                fs |-> wr.fs, wrote |-> TRUE, diff |-> diff]
          ELSE [ok |-> FALSE, stats |-> ZeroStats, fs |-> wr.fs,
                wrote |-> TRUE, diff |-> diff]
     ELSE [ok |-> TRUE, stats |-> [st EXCEPT !.files_updated = 1],
           fs |-> fs, wrote |-> FALSE, diff |-> diff]

\* Faulty variant: users_processed counts only the files that were updated.
FoldStats_updated_only(stats, r) ==
  IF r.ok /\ r.stats.files_updated > 0
  THEN [stats EXCEPT !.users_processed = @ + 1,
                     !.keys_added = @ + r.stats.keys_added,
                     !.keys_removed = @ + r.stats.keys_removed,
                     !.files_updated = @ + 1]
  ELSE IF r.ok THEN stats ELSE [stats EXCEPT !.errors = @ + 1]

\* Faulty variant: a failed file is logged but not counted.
FoldStats_errors_dropped(stats, r) ==
  LET s1 == [stats EXCEPT !.users_processed = @ + 1]
  IN IF r.ok
     THEN [s1 EXCEPT !.keys_added = @ + r.stats.keys_added,
                     !.keys_removed = @ + r.stats.keys_removed,
                     !.files_updated =
                        IF r.stats.files_updated > 0 THEN @ + 1 ELSE @]
     ELSE s1

\* One iteration of the loop of sync_ssh_keys (331-347): the statistics
\* after the result `r` of sync_user_keys is folded in.
FoldStats(stats, r) ==
  LET s1 == [stats EXCEPT !.users_processed = @ + 1]
  IN IF r.ok
     THEN [s1 EXCEPT !.keys_added = @ + r.stats.keys_added,
                     !.keys_removed = @ + r.stats.keys_removed,
                     !.files_updated =
                        IF r.stats.files_updated > 0 THEN @ + 1 ELSE @]
     ELSE [s1 EXCEPT !.errors = @ + 1]

(***************************************************************************)
(* The inputs the model draws from.                                        *)
(***************************************************************************)
MaxPatterns == 2
MaxAssign == 2
MaxPasses == 2
MaxFaults == 2
MaxWriters == 2

SeqsUpTo(S, n) == UNION { [1..k -> S] : k \in 0..n }

alice ==
  [username |-> <<"alice">>, uid |-> 1000,
   home_dir |-> Some(<<"/", "home", "/", "alice">>),
   shell |-> Some(<<"/", "bin", "/", "bash">>)]
bob ==
  [username |-> <<"bob">>, uid |-> 1001,
   home_dir |-> Some(<<"/", "home", "/", "bob">>),
   shell |-> Some(<<"/", "bin", "/", "sh">>)]

\* The user lists collect_users can hand over: sorted by uid.
UserLists == { <<>>, <<alice>>, <<alice, bob>> }

\* AuthorizedKeysFile values: the default, a per-user file under /etc and
\* one file for every account.
PatDefault == <<".", "ssh", "/", "authorized_keys">>
PatPerUser == <<"/", "etc", "/", "ssh", "/", "keys", "/", "%", "u">>
PatShared == <<"/", "etc", "/", "ssh", "/", "authorized_keys">>
PatternUniverse == { PatDefault, PatPerUser, PatShared }
PatternLists == SeqsUpTo(PatternUniverse, MaxPatterns) \ { <<>> }

\* Key lines.
LineK1 == <<"ssh-rsa", SP, "AAAA", SP, "alice@laptop">>
LineK1c == <<"ssh-rsa", SP, "AAAA", SP, SP, "old", SP, "comment">>
LineK2 == <<"ssh-ed25519", SP, "AAAB">>
LineBadType == <<"ssh-foo", SP, "AAAA", SP, "x">>
LineBadData == <<"ssh-rsa", SP, "AA!A", SP, "x">>
LineComment == <<"#", SP, "my", SP, "keys">>

AssignmentUniverse ==
  { [username |-> <<"alice">>, public_key |-> LineK1],
    [username |-> <<"alice">>, public_key |-> LineK2],
    [username |-> <<"alice">>, public_key |-> LineBadData],
    [username |-> <<"bob">>, public_key |-> LineK2] }
AssignmentLists == SeqsUpTo(AssignmentUniverse, MaxAssign)

\* What a discovered path holds before the first pass: nothing, or an
\* unmanaged file with a comment, a key and a line that does not parse.
PriorFiles ==
  { [content |-> <<LineComment, LineK1c, LineBadType>>, mode |-> "0644",
     uid |-> 0, gid |-> 0] }

EmptyFs == [files |-> <<>>, dirs |-> <<>>]

RECURSIVE PathsOf(_)
PathsOf(files) ==
  IF files = <<>> THEN {} ELSE {Head(files).path} \cup PathsOf(Tail(files))

\* The file systems in which exactly the paths of S hold a file, each one
\* of PriorFiles, and every parent directory of a file exists (mode 0755).
PriorFileSystems(S) ==
  { [files |-> f,
     dirs |-> [d \in { parent(q) : q \in S } |->
                 [mode |-> UmaskDirMode, uid |-> 0, gid |-> 0]]] :
    f \in [S -> PriorFiles] }

InitialFileSystems(us, pats) ==
  UNION { PriorFileSystems(S) :
          S \in SUBSET PathsOf(discover_authorized_keys_files(EmptyFs, us, pats)) }

(***************************************************************************)
(* State.                                                                  *)
(***************************************************************************)
VARIABLES
  run,          \* the invocation: arguments, what the servers answer, where main is
  env,          \* what a run reads when it starts: sshd_config files, passwd, ...
  users,        \* the user list handed to sync_ssh_keys
  patterns,     \* the AuthorizedKeysFile patterns of the sshd configuration
  assignments,  \* the key assignments handed to sync_ssh_keys
  euid,         \* the uid the agent runs as
  dry_run,      \* the dry_run argument of the current pass
  fs,           \* the file system
  pc,           \* "start", "loop", "done": where sync_ssh_keys is
  auth_files,   \* the discovered files of the current pass
  idx,          \* the index of the next discovered file to process
  stats,        \* the KeySyncStats of the current pass
  pass,         \* the number of the current pass
  fs_start,     \* history: the file system when the current pass started
  prev,         \* history: the previous pass (its dry_run, stats, faults)
  last,         \* history: the latest iteration of the loop
  results,      \* history: the result of every iteration of this pass
  faults,       \* history: operations the environment refused in this pass
  wfile,        \* step-wise write: the AuthorizedKeysFile being written
  wn,           \* step-wise write: the number of agent runs writing it
  wkeys,        \* step-wise write: the keys each run writes
  wpc,          \* step-wise write: the next operation of each run
  wfd,          \* step-wise write: where the file each run holds open is
  renames       \* history: the runs whose rename succeeded, in order

wvars == << wfile, wn, wkeys, wpc, wfd, renames >>

vars ==
  << run, env, users, patterns, assignments, euid, dry_run, fs, pc, auth_files, idx,
     stats, pass, fs_start, prev, last, results, faults, wvars >>

inputs == << run, env, users, patterns, assignments, euid >>

\* The start of a run (collect_users, get_authorized_keys_patterns) is part
\* of SpecUsers and SpecConfig; elsewhere users and patterns are given and
\* nothing is read.
NoEnv == <<>>

\* main and run_report_cycle are part of SpecMain and SpecRetry; elsewhere
\* sync_ssh_keys is called directly.
NoRun == <<>>

NoFile == [path |-> <<>>, username |-> <<>>, uid |-> 0, exists |-> FALSE]

NoLast ==
  [valid |-> FALSE, file |-> NoFile,
   ok |-> TRUE, wrote |-> FALSE, stats |-> ZeroStats, before |-> EmptyFs,
   fail |-> NoFail, dry |-> FALSE,
   diff |-> [existing |-> <<>>, keys_to_add |-> <<>>, keys_to_remove |-> <<>>]]
NoWrite ==
  /\ wfile = NoFile
  /\ wn = 0
  /\ wkeys = <<>>
  /\ wpc = <<>>
  /\ wfd = <<>>
  /\ renames = <<>>

NoPrev == [valid |-> FALSE, dry |-> FALSE, stats |-> ZeroStats, faults |-> 0,
           fs_start |-> EmptyFs]

InitSync ==
  /\ users \in UserLists
  /\ patterns \in PatternLists
  /\ assignments \in AssignmentLists
  /\ euid \in {0, 1000}
  /\ dry_run \in BOOLEAN
  /\ fs \in InitialFileSystems(users, patterns)
  /\ pc = "start"
  /\ auth_files = <<>>
  /\ idx = 1
  /\ stats = ZeroStats
  /\ pass = 1
  /\ fs_start = fs
  /\ prev = NoPrev
  /\ last = NoLast
  /\ results = <<>>
  /\ faults = 0
  /\ env = NoEnv
  /\ NoWrite
  /\ run = NoRun

\* sync_ssh_keys 311-329: fresh statistics, grouping, discovery.
SyncBegin ==
  /\ pc = "start"
  /\ stats' = ZeroStats
  /\ auth_files' = discover_authorized_keys_files(fs, users, patterns)
  /\ idx' = 1
  /\ pc' = "loop"
  /\ fs_start' = fs
  /\ faults' = 0
  /\ results' = <<>>
  /\ UNCHANGED << inputs, dry_run, fs, pass, prev, last, wvars >>

\* sync_ssh_keys 331-347: one iteration of the loop, the whole of
\* sync_user_keys for one discovered file; `fail` is what the environment
\* refuses during it.
SyncFile(fail) ==
  /\ pc = "loop"
  /\ idx <= Len(auth_files)
  /\ LET file == auth_files[idx]
         asgs == AssignmentsOf(assignments, file.username)
     IN \E r \in { sync_user_keys(fs, file, asgs, dry_run, euid, fail) } :
        /\ fail # NoFail =>
             /\ faults < MaxFaults
             \* the refused operation is one this iteration performs
             /\ r # sync_user_keys(fs, file, asgs, dry_run, euid, NoFail)
        /\ fs' = r.fs
        /\ stats' = FoldStats(stats, r)
        /\ last' = [valid |-> TRUE, file |-> file, ok |-> r.ok,
                    wrote |-> r.wrote, stats |-> r.stats, before |-> fs,
                    fail |-> fail, dry |-> dry_run, diff |-> r.diff]
        /\ results' = Append(results, [ok |-> r.ok, wrote |-> r.wrote,
                                       stats |-> r.stats, fail |-> fail])
  /\ idx' = idx + 1
  /\ faults' = IF fail = NoFail THEN faults ELSE faults + 1
  /\ UNCHANGED << inputs, dry_run, pc, auth_files, pass, fs_start, prev,
                  wvars >>

\* sync_ssh_keys 349-354: the pass returns Ok(stats).
SyncReturn ==
  /\ pc = "loop"
  /\ idx > Len(auth_files)
  /\ pc' = "done"
  /\ UNCHANGED << inputs, dry_run, fs, auth_files, idx, stats, pass,
                  fs_start, prev, last, results, faults, wvars >>

\* The agent is invoked again by its scheduler, now without --dry-run, on
\* the same users, patterns and assignments and the files the last
\* invocation left.
Reinvoke ==
  /\ pc = "done"
  /\ pass < MaxPasses
  /\ pass' = pass + 1
  /\ dry_run' = FALSE
  /\ prev' = [valid |-> TRUE, dry |-> dry_run, stats |-> stats,
              faults |-> faults, fs_start |-> fs_start]
  /\ pc' = "start"
  /\ UNCHANGED << inputs, fs, auth_files, idx, stats, fs_start, last,
                  results, faults, wvars >>

Next ==
  \/ SyncBegin
  \/ SyncFile(NoFail)
  \/ SyncReturn
  \/ Reinvoke

Spec == InitSync /\ [][Next]_vars

(***************************************************************************)
(* Discovery over arbitrary patterns and other accounts: no file exists    *)
(* and nothing is assigned, so a pass only discovers.                      *)
(***************************************************************************)
MaxPatLen == 4

\* root as /etc/passwd may record it (a home other than /root), and the
\* current user of user mode when HOME is not set (get_current_user).
root_user ==
  [username |-> <<"root">>, uid |-> 0,
   home_dir |-> Some(<<"/", "var", "/", "root">>),
   shell |-> Some(<<"/", "bin", "/", "bash">>)]
carol ==
  [username |-> <<"carol">>, uid |-> 1002, home_dir |-> None,
   shell |-> Some(<<"/", "bin", "/", "zsh">>)]

DiscoverUserLists == { <<root_user>>, <<alice>>, <<carol>> }

\* The atoms of a pattern: the token characters, the separator, a name.
PatternAtoms == { "%", "h", "u", "/", "keys" }
DiscoverPatterns == SeqsUpTo(PatternAtoms, MaxPatLen) \ { <<>> }

InitDiscover ==
  /\ users \in DiscoverUserLists
  /\ patterns \in { <<pat>> : pat \in DiscoverPatterns }
  /\ assignments = <<>>
  /\ euid = 0
  /\ dry_run \in BOOLEAN
  /\ fs = EmptyFs
  /\ pc = "start"
  /\ auth_files = <<>>
  /\ idx = 1
  /\ stats = ZeroStats
  /\ pass = 1
  /\ fs_start = fs
  /\ prev = NoPrev
  /\ last = NoLast
  /\ results = <<>>
  /\ faults = 0
  /\ env = NoEnv
  /\ NoWrite
  /\ run = NoRun

SpecDiscover == InitDiscover /\ [][Next]_vars

(***************************************************************************)
(* A pass in which the environment refuses operations.                     *)
(***************************************************************************)
FaultPatternLists ==
  { <<PatDefault>>, <<PatPerUser>>, <<PatDefault, PatShared>> }

InitFault ==
  /\ users = <<alice, bob>>
  /\ patterns \in FaultPatternLists
  /\ assignments \in AssignmentLists
  /\ euid \in {0, 1000}
  /\ dry_run \in BOOLEAN
  /\ fs \in InitialFileSystems(users, patterns)
  /\ pc = "start"
  /\ auth_files = <<>>
  /\ idx = 1
  /\ stats = ZeroStats
  /\ pass = 1
  /\ fs_start = fs
  /\ prev = NoPrev
  /\ last = NoLast
  /\ results = <<>>
  /\ faults = 0
  /\ env = NoEnv
  /\ NoWrite
  /\ run = NoRun

SyncFileFault == \E fail \in FailPoints : SyncFile(fail)

NextFault ==
  \/ SyncBegin
  \/ SyncFile(NoFail)
  \/ SyncFileFault
  \/ SyncReturn

SpecFault == InitFault /\ [][NextFault]_vars

(***************************************************************************)
(* write_authorized_keys_file operation by operation (453-523), run by one *)
(* agent or by several agent runs at once on the same target.  Every run   *)
(* performs the same operations in the same order; the file a run holds    *)
(* open (between File::create and the end of the block, 480-490) follows   *)
(* its inode: a rename moves it, a create of the same path shares it.      *)
(***************************************************************************)
PatTmp == <<".", "ssh", "/", "keys", ".", "tmp">>
WritePatterns == { PatDefault, PatTmp }

WriteKeyLists ==
  { <<parse(LineK2)>>, <<parse(LineK1), parse(LineK2)>> }

Writers == 1..wn

InitWrite ==
  /\ users = <<alice>>
  /\ \E pat \in WritePatterns : patterns = <<pat>>
  /\ assignments = <<>>
  /\ euid \in {0, 1000}
  /\ dry_run = FALSE
  /\ LET p == expand_authorized_keys_pattern(patterns[1], alice.username,
                                             user_home(alice))
     IN fs \in UNION { PriorFileSystems(S) : S \in SUBSET {p, temp_path_of(p)} }
  /\ wfile = discover_authorized_keys_files(fs, users, patterns)[1]
  /\ pc = "write"
  /\ auth_files = <<>>
  /\ idx = 1
  /\ stats = ZeroStats
  /\ pass = 1
  /\ fs_start = fs
  /\ prev = NoPrev
  /\ last = NoLast
  /\ results = <<>>
  /\ faults = 0
  /\ env = NoEnv
  /\ wn \in 1..MaxWriters
  /\ wkeys \in [1..wn -> WriteKeyLists]
  /\ wpc = [w \in 1..wn |-> "mkdir"]
  /\ wfd = [w \in 1..wn |-> <<>>]
  /\ renames = <<>>
  /\ run = NoRun

syncvars ==
  << run, env, users, patterns, assignments, euid, dry_run, pc, auth_files, idx, stats,
     pass, fs_start, prev, last, results >>

ssh_dir == parent(wfile.path)
temp_path == temp_path_of(wfile.path)

\* 456-460: create the directory when it does not exist.
WEnsureDir(w) ==
  /\ wpc[w] = "mkdir"
  /\ fs' = IF ~PathExists(fs, ssh_dir)
           THEN FsCreateDirAll(fs, ssh_dir, euid) ELSE fs
  /\ wpc' = [wpc EXCEPT ![w] = "chmod_dir"]
  /\ UNCHANGED << syncvars, faults, wfile, wn, wkeys, wfd, renames >>

\* 463: set the directory's mode.
WChmodDir(w) ==
  /\ wpc[w] = "chmod_dir"
  /\ fs' = FsChmodDir(fs, ssh_dir, DirMode)
  /\ wpc' = [wpc EXCEPT ![w] = "create"]
  /\ UNCHANGED << syncvars, faults, wfile, wn, wkeys, wfd, renames >>

\* 481: File::create(&temp_path).
WCreate(w) ==
  /\ wpc[w] = "create"
  /\ fs' = FsCreate(fs, temp_path, euid)
  /\ wfd' = [wfd EXCEPT ![w] = <<temp_path>>]
  /\ wpc' = [wpc EXCEPT ![w] = "write"]
  /\ UNCHANGED << syncvars, faults, wfile, wn, wkeys, renames >>

\* 484: temp_file.write_all(content).
WWrite(w) ==
  /\ wpc[w] = "write"
  /\ fs' = IF wfd[w] = <<>> THEN fs
           ELSE FsWriteAt(fs, wfd[w][1], RenderContent(wkeys[w]))
  /\ wpc' = [wpc EXCEPT ![w] = "chmod_tmp"]
  /\ UNCHANGED << syncvars, faults, wfile, wn, wkeys, wfd, renames >>

\* 488-490: temp_file.set_permissions(0o600), then the file is closed.
WChmodTmp(w) ==
  /\ wpc[w] = "chmod_tmp"
  /\ fs' = IF wfd[w] = <<>> THEN fs ELSE FsChmodAt(fs, wfd[w][1], FileMode)
  /\ wfd' = [wfd EXCEPT ![w] = <<>>]
  /\ wpc' = [wpc EXCEPT ![w] = "rename"]
  /\ UNCHANGED << syncvars, faults, wfile, wn, wkeys, renames >>

\* Where an open file is after temp_path has been renamed to the target.
FdAfterRename(fd) ==
  IF temp_path = wfile.path THEN fd
  ELSE IF fd = <<temp_path>> THEN <<wfile.path>>
  ELSE <<>>

\* 493: fs::rename(&temp_path, &file.path); it fails when temp_path holds
\* no file (any more).
WRename(w) ==
  /\ wpc[w] = "rename"
  /\ IF FileExists(fs, temp_path)
     THEN /\ fs' = FsRename(fs, temp_path, wfile.path)
          /\ wfd' = [v \in DOMAIN wfd |-> FdAfterRename(wfd[v])]
          /\ renames' = Append(renames, w)
          /\ wpc' = [wpc EXCEPT ![w] = "chown"]
     ELSE /\ wpc' = [wpc EXCEPT ![w] = "failed"]
          /\ UNCHANGED << fs, wfd, renames >>
  /\ UNCHANGED << syncvars, faults, wfile, wn, wkeys >>

\* 496-522: as root, chown the directory and the file; `refused` names a
\* chown the environment refuses (that is logged, nothing more).
WChown(w, refused) ==
  /\ wpc[w] = "chown"
  /\ LET gidopt == get_user_primary_gid(wfile.uid)
         gid == IF gidopt.some THEN gidopt.val ELSE wfile.uid
         f1 == IF euid = 0 /\ refused # "chown_dir"
               THEN FsChownDir(fs, ssh_dir, wfile.uid, gid) ELSE fs
         f2 == IF euid = 0 /\ refused # "chown_file" /\ FileExists(f1, wfile.path)
               THEN FsChownFile(f1, wfile.path, wfile.uid, gid) ELSE f1
     IN /\ fs' = f2
        /\ refused # NoFail => euid = 0 /\ faults < MaxFaults
  /\ faults' = IF refused = NoFail THEN faults ELSE faults + 1
  /\ wpc' = [wpc EXCEPT ![w] = "done"]
  /\ UNCHANGED << syncvars, wfile, wn, wkeys, wfd, renames >>

\* The environment refuses the operation a run is about to perform: the
\* call returns Err.  A refused write may have written a part.
WRefused(w) ==
  /\ wpc[w] \in { "mkdir", "chmod_dir", "create", "write", "chmod_tmp", "rename" }
  /\ wpc[w] = "mkdir" => ~PathExists(fs, ssh_dir)
  /\ faults < MaxFaults
  /\ faults' = faults + 1
  /\ \/ fs' = fs
     \/ /\ wpc[w] = "write"
        /\ wfd[w] # <<>>
        /\ fs' = FsWriteAt(fs, wfd[w][1], HeaderLines)
  /\ wfd' = [wfd EXCEPT ![w] = <<>>]
  /\ wpc' = [wpc EXCEPT ![w] = "failed"]
  /\ UNCHANGED << syncvars, wfile, wn, wkeys, renames >>

NextWrite ==
  \/ \E w \in Writers : WEnsureDir(w)
  \/ \E w \in Writers : WChmodDir(w)
  \/ \E w \in Writers : WCreate(w)
  \/ \E w \in Writers : WWrite(w)
  \/ \E w \in Writers : WChmodTmp(w)
  \/ \E w \in Writers : WRename(w)
  \/ \E w \in Writers : WChown(w, NoFail)
  \/ \E w \in Writers : \E refused \in { "chown_dir", "chown_file" } :
       WChown(w, refused)
  \/ \E w \in Writers : WRefused(w)

SpecWrite == InitWrite /\ [][NextWrite]_vars

\* The operation at which a run stopped, as write_authorized_keys_file
\* names it.
WritersFinished == \A w \in Writers : wpc[w] \in { "done", "failed" }

\* The step-wise write of a single run without refusals ends in the file
\* system the one-call form write_authorized_keys_file computes.
WriteStepsAgree ==
  (wn = 1 /\ faults = 0 /\ wpc[1] = "done") =>
    fs = write_authorized_keys_file(fs_start, wfile, wkeys[1], euid, NoFail).fs

(***************************************************************************)
(* Properties of a pass.                                                   *)
(***************************************************************************)
FpSet(keys) == { keys[i].fingerprint : i \in 1..Len(keys) }

\* The keys a fresh read of path p yields (no file: none).
Reread(p) ==
  IF FileExists(fs, p) THEN ParseLines(fs.files[p].content) ELSE <<>>

TargetOf(username) == TargetKeys(AssignmentsOf(assignments, username))

\* A pass has returned and nothing failed in it.
CleanPassDone ==
  /\ pc = "done"
  /\ faults = 0
  /\ \A i \in 1..Len(results) : results[i].ok

\* C1. Convergence: after a non-dry-run pass in which nothing failed, every
\* discovered file re-reads to exactly the fingerprints of the parsable
\* assignments of its user.
C1_Convergence ==
  (CleanPassDone /\ ~dry_run) =>
    \A i \in 1..Len(auth_files) :
      FpSet(Reread(auth_files[i].path)) = FpSet(TargetOf(auth_files[i].username))

\* C3. Idempotence: a pass that follows a clean non-dry-run pass with the
\* same inputs adds nothing, removes nothing and writes no file.
C3_Idempotence ==
  (CleanPassDone /\ prev.valid /\ ~prev.dry /\ prev.faults = 0
     /\ prev.stats.errors = 0) =>
    /\ stats.keys_added = 0
    /\ stats.keys_removed = 0
    /\ fs = fs_start

\* C4. Dry run: while a dry-run pass runs and after it has returned, the
\* file system is the one the pass started on (no path created or removed,
\* no content, mode or owner changed).
C4_DryRunNoSideEffect == dry_run => fs = fs_start

C4_Witness ==
  /\ dry_run /\ pc = "done"
  /\ stats.files_updated > 0
  /\ stats.keys_added > 0
  /\ stats.keys_removed > 0

\* The loop of sync_ssh_keys (331-347) over `files` from file system f when
\* the environment refuses nothing: the result of every iteration and the
\* file system left.
RECURSIVE CleanPass(_, _, _)
CleanPass(f, files, acc) ==
  IF files = <<>> THEN [fs |-> f, results |-> acc]
  ELSE LET file == Head(files)
           r == sync_user_keys(f, file, AssignmentsOf(assignments, file.username),
                               dry_run, euid, NoFail)
       IN CleanPass(r.fs, Tail(files),
                    Append(acc, [ok |-> r.ok, wrote |-> r.wrote,
                                 stats |-> r.stats, fail |-> NoFail]))

\* What is at path p: no file, or the file with content, mode and owner.
FileAt(f, p) == IF FileExists(f, p) THEN <<f.files[p]>> ELSE <<>>

\* The paths of the discovered files during whose iteration an operation
\* was refused.
FaultedPaths ==
  { auth_files[i].path : i \in { j \in 1..Len(results) : results[j].fail # NoFail } }

\* C5. Per-file error isolation: a pass returns statistics whatever fails;
\* every discovered file is processed, errors counts the failed files once
\* each, and every file at another path than the failed ones gets the result
\* and is left in the state of the pass in which nothing fails.
C5_ErrorIsolation ==
  (pc = "done") =>
    /\ Len(results) = Len(auth_files)
    /\ stats.users_processed = Len(auth_files)
    /\ stats.errors = Cardinality({ i \in 1..Len(results) : ~results[i].ok })
    /\ LET clean == CleanPass(fs_start, auth_files, <<>>)
       IN \A i \in 1..Len(results) :
            (results[i].fail = NoFail /\ auth_files[i].path \notin FaultedPaths) =>
              /\ results[i] = clean.results[i]
              /\ FileAt(fs, auth_files[i].path) = FileAt(clean.fs, auth_files[i].path)

C5_Witness ==
  /\ pc = "done"
  /\ stats.errors = 1
  /\ \E i, j \in 1..Len(results) :
       /\ i < j
       /\ ~results[i].ok
       /\ results[j].fail = NoFail /\ results[j].ok /\ results[j].wrote
       /\ auth_files[j].path \notin FaultedPaths

\* C7. A dry-run pass reports the keys_added and keys_removed that the
\* non-dry-run pass from the same file system and inputs then reports.
C7_DryRunStatsEqualReal ==
  (CleanPassDone /\ ~dry_run /\ prev.valid /\ prev.dry /\ prev.faults = 0
     /\ prev.stats.errors = 0 /\ fs_start = prev.fs_start) =>
    /\ prev.stats.keys_added = stats.keys_added
    /\ prev.stats.keys_removed = stats.keys_removed

\* C8. Post-write modes: after a successful write the parent directory has
\* mode 0700 and the file mode 0600.
C8_PostWriteModes ==
  (last.valid /\ last.wrote /\ last.ok) =>
    /\ DirExists(fs, parent(last.file.path))
    /\ fs.dirs[parent(last.file.path)].mode = "0700"
    /\ FileExists(fs, last.file.path)
    /\ fs.files[last.file.path].mode = "0600"

C8_Witness ==
  /\ last.valid /\ last.wrote /\ last.ok
  /\ FileExists(last.before, last.file.path)
  /\ last.before.files[last.file.path].mode = "0644"
  /\ last.before.dirs[parent(last.file.path)].mode = "0755"

\* C9. Empty diff: a file for which nothing is to add and nothing to remove
\* is left as it is, with its directory, and is not counted as updated.
C9_EmptyDiffNoOp ==
  (last.valid /\ last.ok /\ last.stats.keys_added = 0
     /\ last.stats.keys_removed = 0) =>
    /\ fs = last.before
    /\ last.stats.files_updated = 0

C9_Witness ==
  /\ last.valid /\ last.ok
  /\ last.stats.keys_added = 0 /\ last.stats.keys_removed = 0
  /\ FileExists(fs, last.file.path)
  /\ fs.files[last.file.path].content[1] = LineComment
  /\ TargetOf(last.file.username) # <<>>

\* C10. Full replacement: a successful write leaves the header followed by
\* one line per target key, in assignment order, and nothing else.
C10_FullReplacement ==
  (last.valid /\ last.wrote /\ last.ok) =>
    LET content == fs.files[last.file.path].content
        target == TargetOf(last.file.username)
    IN /\ Len(content) = 4 + Len(target)
       /\ content[1] = managed_marker
       /\ Head(content[2]) = "#" /\ Head(content[3]) = "#"
       /\ content[4] = <<>>
       /\ \A i \in 1..Len(target) : content[4 + i] = to_string(target[i])
       /\ \A i \in 1..Len(content) :
            content[i] \notin { LineComment, LineK1c, LineBadType }

C10_Witness ==
  /\ last.valid /\ last.wrote /\ last.ok
  /\ FileExists(last.before, last.file.path)
  /\ Len(TargetOf(last.file.username)) = 2
  /\ TargetOf(last.file.username)[1].fingerprint
       # TargetOf(last.file.username)[2].fingerprint
  /\ last.stats.keys_added = 1

(***************************************************************************)
(* Properties of the step-wise write.                                      *)
(***************************************************************************)
\* What a reader of the target path gets: no file, or the file's content.
TargetView(f) ==
  IF FileExists(f, wfile.path) THEN <<f.files[wfile.path].content>> ELSE <<>>

\* C2. Atomic commit: in every state of a single run's write, the target
\* reads as its complete previous content or as the complete new content,
\* and with the new content its mode is 0600.
C2_AtomicCommit ==
  (wn = 1) =>
    /\ TargetView(fs) \in { TargetView(fs_start), <<RenderContent(wkeys[1])>> }
    /\ TargetView(fs) = <<RenderContent(wkeys[1])>> =>
         fs.files[wfile.path].mode = "0600"

\* C6. Concurrent runs: with two runs writing the same target and no
\* operation refused, the target always reads as its prior content or as
\* the complete file of one run, and once all runs have finished it reads
\* as the file of the run that renamed last.
C6_ConcurrentRuns ==
  (wn >= 2 /\ faults = 0) =>
    /\ TargetView(fs) \in
         {TargetView(fs_start)} \cup { <<RenderContent(wkeys[w])>> : w \in Writers }
    /\ (WritersFinished /\ renames # <<>>) =>
         TargetView(fs) = <<RenderContent(wkeys[renames[Len(renames)]])>>

(***************************************************************************)
(* Properties of the statistics of a pass.                                 *)
(***************************************************************************)
\* The assignments that do not parse, summed over the discovered files
\* (sync_user_keys converts the assignments of the file's user once per
\* file).
RECURSIVE SumInvalid(_)
SumInvalid(files) ==
  IF files = <<>> THEN 0
  ELSE InvalidCount(AssignmentsOf(assignments, Head(files).username))
       + SumInvalid(Tail(files))

\* C11. Invalid assignments are counted: after a pass in which nothing
\* failed, the errors of the returned statistics count every assignment of
\* a discovered user that does not parse, such an assignment is not among
\* the keys written, and every discovered file was processed.
C11_InvalidAssignmentsCounted ==
  CleanPassDone =>
    /\ stats.errors = SumInvalid(auth_files)
    /\ Len(results) = Len(auth_files)
    /\ \A i \in 1..Len(results) :
         Len(TargetOf(auth_files[i].username))
           = Len(AssignmentsOf(assignments, auth_files[i].username))
             - InvalidCount(AssignmentsOf(assignments, auth_files[i].username))

\* The refusals that are ownership failures: chown of the directory (503),
\* chown of the file (510).
OwnershipFailPoints == { "chown_dir", "chown_file" }

\* C12. Ownership failures are errors: when a chown of a privileged write
\* is refused, the pass still processes every file and the errors it
\* returns count that file, as they count every file that failed otherwise.
C12_OwnershipFailuresAreErrors ==
  (pc = "done") =>
    /\ Len(results) = Len(auth_files)
    /\ stats.errors =
         Cardinality({ i \in 1..Len(results) :
                         ~results[i].ok \/ results[i].fail \in OwnershipFailPoints })

(***************************************************************************)
(* Properties of ownership.                                                *)
(***************************************************************************)
Owner(rec) == << rec.uid, rec.gid >>

\* C13. Ownership on write: after a successful write by a privileged
\* process, the directory and the file belong to the file's uid and the
\* primary gid the account database records for it; after a successful
\* write by an unprivileged process for another uid, no ownership was set
\* (the directory keeps its owner, the file is the process's own), the file
\* has the new content and is counted as updated.
C13_OwnershipOnWrite ==
  (last.valid /\ last.wrote /\ last.ok) =>
    LET p == last.file.path
        d == parent(p)
        recorded == get_user_primary_gid(last.file.uid)
    IN /\ (euid = 0 /\ recorded.some) =>
            /\ Owner(fs.dirs[d]) = << last.file.uid, recorded.val >>
            /\ Owner(fs.files[p]) = << last.file.uid, recorded.val >>
       /\ (euid # 0 /\ last.file.uid # euid) =>
            /\ DirExists(last.before, d) =>
                 Owner(fs.dirs[d]) = Owner(last.before.dirs[d])
            /\ Owner(fs.files[p]) = << euid, euid >>
            /\ fs.files[p].content = RenderContent(TargetOf(last.file.username))
            /\ last.stats.files_updated = 1

(***************************************************************************)
(* Properties of the users and assignments of a pass.                      *)
(***************************************************************************)
UserNames(us) == { us[i].username : i \in 1..Len(us) }

\* The assignments whose user is in the supplied user list.
KnownOnly(asgs) ==
  SelectSeq(asgs, LAMBDA a : a.username \in UserNames(users))

\* The loop of sync_ssh_keys (331-347) over `files` from file system f with
\* the assignment list `asgs`, nothing refused: the statistics returned and
\* the file system left.
RECURSIVE PassWith(_, _, _, _)
PassWith(f, files, asgs, st) ==
  IF files = <<>> THEN [fs |-> f, stats |-> st]
  ELSE LET file == Head(files)
           r == sync_user_keys(f, file, AssignmentsOf(asgs, file.username),
                               dry_run, euid, NoFail)
       IN PassWith(r.fs, Tail(files), asgs, FoldStats(st, r))

\* The paths at which the pass changed, created or removed something.
ChangedPaths ==
  { p \in DOMAIN fs.files \cup DOMAIN fs_start.files :
      FileAt(fs, p) # FileAt(fs_start, p) }
  \cup
  { d \in DOMAIN fs.dirs \cup DOMAIN fs_start.dirs :
      (IF DirExists(fs, d) THEN <<fs.dirs[d]>> ELSE <<>>)
        # (IF DirExists(fs_start, d) THEN <<fs_start.dirs[d]>> ELSE <<>>) }

\* C14. Assignments for unknown users are inert: every discovered file
\* belongs to a user of the user list, nothing changes outside the
\* discovered files and their directories, and the statistics and the file
\* system are those of the pass without the assignments of unknown users.
C14_UnknownUsersInert ==
  CleanPassDone =>
    LET ref == PassWith(fs_start, auth_files, KnownOnly(assignments), ZeroStats)
    IN /\ \A i \in 1..Len(auth_files) : auth_files[i].username \in UserNames(users)
       /\ stats.users_processed = Len(users) * Len(patterns)
       /\ ChangedPaths \subseteq
            UNION { { auth_files[i].path, parent(auth_files[i].path) } :
                    i \in 1..Len(auth_files) }
       /\ stats = ref.stats
       /\ fs = ref.fs

C14_Witness ==
  /\ CleanPassDone /\ ~dry_run
  /\ users # <<>>
  /\ \E i \in 1..Len(assignments) :
       /\ assignments[i].username \notin UserNames(users)
       /\ parse(assignments[i].public_key).ok
  /\ \E i \in 1..Len(results) : results[i].wrote

(***************************************************************************)
(* Properties of sync_user_keys.                                           *)
(***************************************************************************)
\* The assignments all parse and no two have the same fingerprint.
AllDistinctValid(asgs) ==
  /\ InvalidCount(asgs) = 0
  /\ \A i, j \in 1..Len(asgs) :
       i # j => parse(asgs[i].public_key).fingerprint
                  # parse(asgs[j].public_key).fingerprint

\* C15. First deployment: with a single pattern, the sync of a user whose
\* file is absent and whose n >= 1 assignments all parse with distinct
\* fingerprints returns keys_added = n, keys_removed = 0, files_updated = 1,
\* and the lines of the file that are keys are then exactly those n keys,
\* in assignment order.
C15_FirstDeployment ==
  LET asgs == AssignmentsOf(assignments, last.file.username)
  IN (last.valid /\ last.ok /\ ~last.dry /\ Len(patterns) = 1
        /\ ~FileExists(last.before, last.file.path)
        /\ Len(asgs) >= 1 /\ AllDistinctValid(asgs)) =>
       /\ last.stats.keys_added = Len(asgs)
       /\ last.stats.keys_removed = 0
       /\ last.stats.files_updated = 1
       /\ FileExists(fs, last.file.path)
       /\ ParseLines(fs.files[last.file.path].content)
            = [i \in 1..Len(asgs) |-> parse(asgs[i].public_key)]

C15_Witness ==
  /\ last.valid /\ last.ok /\ ~last.dry /\ Len(patterns) = 1
  /\ ~FileExists(last.before, last.file.path)
  /\ Len(AssignmentsOf(assignments, last.file.username)) = 2
  /\ AllDistinctValid(AssignmentsOf(assignments, last.file.username))
  /\ last.stats.keys_added = 2

(***************************************************************************)
(* Properties of discovery.                                                *)
(***************************************************************************)
\* C16. users_processed counts discovered files: discovery yields one entry
\* per user and pattern, in user order and within a user in pattern order,
\* and the pass returns users_processed = users x patterns.
C16_UsersProcessedCountsFiles ==
  LET np == Len(patterns)
  IN /\ (pc \in {"loop", "done"}) =>
          /\ Len(auth_files) = Len(users) * np
          /\ \A u \in 1..Len(users) : \A p \in 1..np :
               LET e == auth_files[(u - 1) * np + p]
               IN /\ e.username = users[u].username
                  /\ e.uid = users[u].uid
                  /\ e.path = expand_authorized_keys_pattern(
                                 patterns[p], users[u].username, user_home(users[u]))
                  /\ e.exists = PathExists(fs_start, e.path)
     /\ (pc = "done") => stats.users_processed = Len(users) * np

C16_Witness ==
  /\ pc = "done"
  /\ Len(users) = 2 /\ Len(patterns) = 2
  /\ stats.users_processed = 4
  /\ stats.files_updated \in 1..3

(***************************************************************************)
(* Properties of the diff and of the read.                                 *)
(***************************************************************************)
\* C17. Diff definition: keys_to_add is the target keys whose fingerprint
\* no existing key has, keys_to_remove the existing keys whose fingerprint
\* no target key has, each in the order of its source, and keys_added and
\* keys_removed of the file are their lengths.
C17_DiffDefinition ==
  (last.valid /\ last.ok) =>
    LET target == TargetOf(last.file.username)
        existing == last.diff.existing
    IN /\ last.diff.keys_to_add =
            SelectSeq(target, LAMBDA k :
               \A j \in 1..Len(existing) : existing[j].fingerprint # k.fingerprint)
       /\ last.diff.keys_to_remove =
            SelectSeq(existing, LAMBDA k :
               \A j \in 1..Len(target) : target[j].fingerprint # k.fingerprint)
       /\ last.stats.keys_added = Len(last.diff.keys_to_add)
       /\ last.stats.keys_removed = Len(last.diff.keys_to_remove)

C17_Witness ==
  /\ last.valid /\ last.ok
  /\ Len(last.diff.existing) = 1
  /\ Len(TargetOf(last.file.username)) = 2
  /\ Len(last.diff.keys_to_add) = 1
  /\ last.diff.keys_to_remove = <<>>
  /\ last.diff.existing[1] \notin
       { TargetOf(last.file.username)[i] : i \in 1..2 }

\* C18. Lossy read: the keys sync_user_keys gets from read_authorized_keys
\* are none, without an error, when the file does not exist, and otherwise
\* exactly the lines of the file that parse, in file order; with no
\* existing key every target key is counted as added.
C18_LossyRead ==
  last.valid =>
    LET p == last.file.path
    IN /\ last.ok
       /\ last.diff.existing =
            IF FileExists(last.before, p)
            THEN ParseLines(last.before.files[p].content) ELSE <<>>
       /\ (last.diff.existing = <<>>) =>
            last.stats.keys_added = Len(TargetOf(last.file.username))

(***************************************************************************)
(* Properties of pattern expansion and of the home directory.              *)
(***************************************************************************)
\* A pattern made of literal text and the tokens %h, %u, %%: read from the
\* left, every "%" begins one of the three tokens.
RECURSIVE TokensOnly(_)
TokensOnly(s) ==
  IF s = <<>> THEN TRUE
  ELSE IF Head(s) = "%"
       THEN Len(s) >= 2 /\ s[2] \in {"h", "u", "%"}
            /\ TokensOnly(SubSeq(s, 3, Len(s)))
       ELSE TokensOnly(Tail(s))

\* The text in which each token of the pattern, read from the left, is
\* replaced: %h by the home directory, %u by the username, %% by "%".
RECURSIVE TokenExpansion(_, _, _)
TokenExpansion(s, username, home_text) ==
  IF s = <<>> THEN <<>>
  ELSE IF Head(s) = "%" /\ Len(s) >= 2
       THEN (CASE s[2] = "h" -> home_text
               [] s[2] = "u" -> username
               [] OTHER -> <<"%">>)
            \o TokenExpansion(SubSeq(s, 3, Len(s)), username, home_text)
       ELSE <<Head(s)>> \o TokenExpansion(Tail(s), username, home_text)

\* C19. Token expansion: the path discovered for a pattern of literal text
\* and tokens is the token expansion of the pattern, absolute when it
\* starts with "/" and otherwise joined to the home directory.
C19_TokenExpansion ==
  (pc \in {"loop", "done"}) =>
    \A u \in 1..Len(users) : \A p \in 1..Len(patterns) :
      TokensOnly(patterns[p]) =>
        LET home == user_home(users[u])
            text == TokenExpansion(patterns[p], users[u].username,
                                   to_string_lossy(home))
        IN auth_files[(u - 1) * Len(patterns) + p].path =
             IF text # <<>> /\ Head(text) = "/"
             THEN PathFrom(text) ELSE PathJoin(home, text)

\* C20. Home directory choice: the home a pattern is expanded with is /root
\* for uid 0 whatever home is recorded, otherwise the recorded home, and
\* /home/<username> when none is recorded.  (The pattern %h discovers the
\* home itself, a relative name the path below it.)
C20_HomeDirectoryChoice ==
  (pc \in {"loop", "done"}) =>
    \A u \in 1..Len(users) : \A p \in 1..Len(patterns) :
      LET home == IF users[u].uid = 0 THEN << <<"root">> >>
                  ELSE IF users[u].home_dir.some
                       THEN PathFrom(users[u].home_dir.val)
                       ELSE << <<"home">>, users[u].username >>
          path == auth_files[(u - 1) * Len(patterns) + p].path
      IN /\ patterns[p] = <<"%", "h">> => path = home
         /\ patterns[p] = <<"keys">> => path = Append(home, <<"keys">>)

C20_Witness ==
  /\ pc = "done"
  /\ users[1].uid = 0
  /\ users[1].home_dir = Some(<<"/", "var", "/", "root">>)
  /\ patterns = << <<"%", "h">> >>
  /\ auth_files[1].path = << <<"root">> >>

(***************************************************************************)
(* Properties of the keys of different users.                              *)
(***************************************************************************)
\* The fingerprints assigned (by an assignment that parses) to a user other
\* than `username`, among the users and names the assignments mention.
OtherUsersFps(username) ==
  UNION { FpSet(TargetOf(assignments[i].username)) :
          i \in { j \in 1..Len(assignments) : assignments[j].username # username } }

\* C26. Cross-user key isolation: after a non-dry-run pass in which nothing
\* failed, no file discovered for a user holds a key that only the
\* assignments of other usernames have.
C26_CrossUserIsolation ==
  (CleanPassDone /\ ~dry_run) =>
    \A i \in 1..Len(auth_files) :
      FpSet(Reread(auth_files[i].path)) \cap OtherUsersFps(auth_files[i].username)
        \subseteq FpSet(TargetOf(auth_files[i].username))

\* C28. Diff uses current disk state: the existing keys an iteration diffs
\* against are the keys that parse in the file at its path at that moment,
\* also when the path was written earlier in the same pass.
C28_DiffUsesDiskState ==
  (last.valid /\ last.ok /\ FileExists(last.before, last.file.path)) =>
    FpSet(last.diff.existing)
      = FpSet(ParseLines(last.before.files[last.file.path].content))

DiscoveredTargets ==
  { auth_files[i].path : i \in 1..Len(auth_files) }
    \cup (IF wn >= 1 THEN { wfile.path } ELSE {})

\* C27. Temporary path is private to its target: the temporary path of a
\* discovered target is neither that target nor another discovered target.
C27_TempPathPrivate ==
  \A t \in DiscoveredTargets : temp_path_of(t) \notin DiscoveredTargets

\* The operations of write_authorized_keys_file whose refusal makes it
\* return Err (459, 463, 481, 484, 488, 493).
WriteFailPoints ==
  { "mkdir", "chmod_dir", "create", "write", "write_partial", "chmod_tmp",
    "rename" }

RECURSIVE SumOk(_, _)
\* The sum of a statistic over the iterations that returned Ok.
SumOk(rs, field) ==
  IF rs = <<>> THEN 0
  ELSE (IF Head(rs).ok THEN Head(rs).stats[field] ELSE 0) + SumOk(Tail(rs), field)

\* C30. Failed write leaves the target as it was: when the write of a file
\* fails, the target path holds what it held before (existence, content,
\* mode), the pass counts neither the file as updated nor its adds and
\* removes, and errors counts it once.  Stated for the write as one call of a
\* pass and for the write operation by operation.
C30_FailedWriteLeavesTarget ==
  /\ (last.valid /\ ~last.ok /\ last.fail \in WriteFailPoints) =>
       /\ FileAt(fs, last.file.path) = FileAt(last.before, last.file.path)
       /\ stats.errors = Cardinality({ i \in 1..Len(results) : ~results[i].ok })
       /\ stats.files_updated
            = Cardinality({ i \in 1..Len(results) :
                              results[i].ok /\ results[i].stats.files_updated > 0 })
       /\ stats.keys_added = SumOk(results, "keys_added")
       /\ stats.keys_removed = SumOk(results, "keys_removed")
  /\ (wn = 1 /\ wpc[1] = "failed") =>
       FileAt(fs, wfile.path) = FileAt(fs_start, wfile.path)

(***************************************************************************)
(* A pass over one assignment whose public_key is an arbitrary line:       *)
(* every line of up to MaxLineLen atoms, and the lines of the form         *)
(* "<type> <base64> [comment]".  sync_user_keys parses the line            *)
(* (assignment_to_ssh_key, 443-445), writes its rendering (to_string, 472) *)
(* and parses that again in the next pass (read_authorized_keys, 287).     *)
(***************************************************************************)
MaxLineLen == 3

ParseAtoms == { SP, "#", "ssh-rsa", "ssh-foo", "AAAA", "AA!A", "c" }

\* The parts of a line of the form "<type> <base64> [comment]": the type,
\* the whitespace after it, the base64 word, and what follows the space
\* after it.
FormRecords ==
  [ type : { <<"ssh-rsa">>, <<"ssh-ed25519">> },
    sep : { <<SP>>, <<SP, SP>> },
    data : { <<"AAAA">>, <<"AAAB", "AAAC">> },
    comm : { <<>>, <<"c">>, <<SP, "c", SP, SP, "d">>, <<"#", "c">>,
             <<"c", SP>>, <<SP>> } ]

LineOf(rec) ==
  rec.type \o rec.sep \o rec.data
    \o (IF rec.comm = <<>> THEN <<>> ELSE <<SP>> \o rec.comm)

ParseLineUniverse ==
  SeqsUpTo(ParseAtoms, MaxLineLen) \cup { LineOf(rec) : rec \in FormRecords }

InitParse ==
  /\ users = <<alice>>
  /\ patterns = <<PatDefault>>
  /\ \E line \in ParseLineUniverse :
       assignments = <<[username |-> alice.username, public_key |-> line]>>
  /\ euid = 0
  /\ dry_run \in BOOLEAN
  /\ fs \in InitialFileSystems(users, patterns)
  /\ pc = "start"
  /\ auth_files = <<>>
  /\ idx = 1
  /\ stats = ZeroStats
  /\ pass = 1
  /\ fs_start = fs
  /\ prev = NoPrev
  /\ last = NoLast
  /\ results = <<>>
  /\ faults = 0
  /\ env = NoEnv
  /\ NoWrite
  /\ run = NoRun

SpecParse == InitParse /\ [][Next]_vars

(***************************************************************************)
(* Properties of SshKey::parse, to_string and the fingerprint.             *)
(***************************************************************************)
\* The whitespace-separated fields of a line.
Fields(line) == split_whitespace(line)

\* An invalid key line: empty, a comment, fewer than two fields,
\* a first field outside the allow-list, or a second field that is not
\* standard base64.
Rejected(line) ==
  \/ \A i \in 1..Len(line) : line[i] = SP
  \/ \E i \in 1..Len(line) :
       /\ line[i] = "#"
       /\ \A j \in 1..(i - 1) : line[j] = SP
  \/ Len(Fields(line)) < 2
  \/ Fields(line)[1] \notin ALLOWED_KEY_TYPES
  \/ \E i \in 1..Len(Fields(line)[2]) : Fields(line)[2][i] \notin B64Groups

\* The assignments of the user of the file processed last.
LastAssignments ==
  { i \in 1..Len(assignments) : assignments[i].username = last.file.username }

\* C22. Parse rejects invalid lines: an assignment whose line is empty, a
\* comment, has fewer than two fields, a type outside the allow-list or a
\* second field that is not base64 is counted as an error of its file and
\* yields no key.
C22_ParseRejectsInvalid ==
  (last.valid /\ last.ok) =>
    LET bad == { i \in LastAssignments : Rejected(assignments[i].public_key) }
    IN /\ last.stats.errors >= Cardinality(bad)
       /\ Len(last.diff.keys_to_add)
            <= Cardinality(LastAssignments) - Cardinality(bad)
       /\ \A i \in bad : ~assignment_to_ssh_key(assignments[i]).ok

C22_Witness ==
  /\ last.valid /\ last.ok
  /\ Len(assignments) = 1
  /\ Len(Fields(assignments[1].public_key)) = 2
  /\ Fields(assignments[1].public_key)[1] = <<"ssh-rsa">>
  /\ Fields(assignments[1].public_key)[2] = <<"AA!A">>
  /\ last.stats.errors = 1
  /\ last.diff.keys_to_add = <<>>

RECURSIVE Squeeze(_)
\* A text with every run of spaces replaced by one space.
Squeeze(s) ==
  IF s = <<>> THEN <<>>
  ELSE IF Len(s) >= 2 /\ s[1] = SP /\ s[2] = SP THEN Squeeze(Tail(s))
  ELSE <<Head(s)>> \o Squeeze(Tail(s))

\* The expected rendering of a line of the form: "<type> <data>",
\* then the comment with its whitespace runs collapsed, if there is one.
Rendering(rec) ==
  LET c == Trim(Squeeze(rec.comm))
  IN rec.type \o <<SP>> \o rec.data \o (IF c = <<>> THEN <<>> ELSE <<SP>> \o c)

\* The key lines of the managed file at path p (what follows the header).
KeyLinesAt(p) ==
  SubSeq(fs.files[p].content, Len(HeaderLines) + 1, Len(fs.files[p].content))

\* C23. Parse/render round trip: a line of the form "<type> <base64>
\* [comment]" parses; the file written for it holds "<type> <data>" and the
\* comment with single spaces; parsing that line gives the key again.
C23_ParseRenderRoundTrip ==
  (last.valid /\ Len(assignments) = 1
     /\ assignments[1].username = last.file.username) =>
    \A rec \in FormRecords :
      (assignments[1].public_key = LineOf(rec)) =>
        /\ last.ok => last.stats.errors = 0
        /\ (last.ok /\ last.wrote /\ ~last.dry) =>
             /\ KeyLinesAt(last.file.path) = <<Rendering(rec)>>
             /\ Reread(last.file.path) = last.diff.keys_to_add
             /\ Len(last.diff.keys_to_add) = 1
             /\ last.diff.keys_to_add[1].key_type = rec.type
             /\ last.diff.keys_to_add[1].key_data = rec.data

C23_Witness ==
  /\ last.valid /\ last.ok /\ last.wrote /\ ~last.dry
  /\ Len(assignments) = 1
  /\ assignments[1].public_key
       = <<"ssh-rsa", SP, "AAAB", "AAAC", SP, SP, "c", SP, SP, "d">>
  /\ KeyLinesAt(last.file.path)
       = << <<"ssh-rsa", SP, "AAAB", "AAAC", SP, "c", SP, "d">> >>
  /\ Len(Reread(last.file.path)) = 1

\* C24. Fingerprint determinism: a key on disk and a key of an assignment
\* with the same key_data have the same fingerprint, whatever their types
\* and comments, so such an assignment is never a key to add.
C24_FingerprintDeterminism ==
  (last.valid /\ last.ok) =>
    /\ \A i \in 1..Len(last.diff.existing) :
         \A j \in 1..Len(TargetOf(last.file.username)) :
           LET k1 == last.diff.existing[i]
               k2 == TargetOf(last.file.username)[j]
           IN k1.key_data = k2.key_data => k1.fingerprint = k2.fingerprint
    /\ \A j \in 1..Len(last.diff.keys_to_add) :
         \A i \in 1..Len(last.diff.existing) :
           last.diff.keys_to_add[j].key_data # last.diff.existing[i].key_data

C24_Witness ==
  /\ last.valid /\ last.ok
  /\ Len(last.diff.existing) = 1
  /\ Len(TargetOf(last.file.username)) = 1
  /\ last.diff.existing[1].key_data = TargetOf(last.file.username)[1].key_data
  /\ last.diff.existing[1].key_type # TargetOf(last.file.username)[1].key_type
  /\ last.diff.existing[1].comment # TargetOf(last.file.username)[1].comment
  /\ last.diff.keys_to_add = <<>>

(***************************************************************************)
(* get_authorized_keys_patterns (ssh_keys.rs 200-253).  The sshd_config    *)
(* files are env.sshd_config: one entry per path of sshd_config_paths, in  *)
(* that order, None when read_to_string fails, else the lines of the file. *)
(***************************************************************************)
default_patterns == << PatDefault >>

Keyword == "AuthorizedKeysFile"

\* str::strip_prefix("AuthorizedKeysFile"): the rest of the line when the
\* line begins with these characters, whatever follows them.
strip_prefix(line) ==
  IF line # <<>> /\ Head(line) = Keyword THEN Some(Tail(line)) ELSE None

\* 220-238: the patterns one line of the file contributes.
PatternsOfLine(line0) ==
  LET line == Trim(line0)
  IN IF line = <<>> \/ Head(line) = "#" THEN <<>>
     ELSE IF strip_prefix(line).some
          THEN split_whitespace(Trim(strip_prefix(line).val))
          ELSE <<>>

RECURSIVE PatternsOfLines(_)
PatternsOfLines(lines) ==
  IF lines = <<>> THEN <<>>
  ELSE PatternsOfLine(Head(lines)) \o PatternsOfLines(Tail(lines))

\* 214-242: the loop over sshd_config_paths stops at the first file read.
RECURSIVE FirstRead(_)
FirstRead(configs) ==
  IF configs = <<>> THEN None
  ELSE IF Head(configs).some THEN Head(configs) ELSE FirstRead(Tail(configs))

get_authorized_keys_patterns(configs) ==
  LET content == FirstRead(configs)
      found_config == content.some
      found == IF found_config THEN PatternsOfLines(content.val) ELSE <<>>
  IN IF ~found_config THEN default_patterns
     ELSE IF found = <<>> THEN default_patterns
     ELSE found

MaxConfigLines == 2

\* Lines of an sshd_config: a directive with two values, one with leading
\* and repeated spaces, one commented out, another directive, the directive
\* without a value, and a directive whose name only begins with the keyword.
ConfigLines ==
  { <<Keyword, SP>> \o PatDefault \o <<SP>> \o PatPerUser,
    <<SP, SP, Keyword, SP, SP>> \o PatShared,
    <<"#", Keyword, SP>> \o PatShared,
    <<"PubkeyAuthentication", SP, "yes">>,
    <<Keyword>>,
    <<Keyword, "s", SP>> \o PatShared }

ConfigFiles == { Some(c) : c \in SeqsUpTo(ConfigLines, MaxConfigLines) }

\* What the second and third path hold.
LaterConfigFiles ==
  { None, Some(<< <<Keyword, SP>> \o PatShared >>),
    Some(<< <<"PubkeyAuthentication", SP, "yes">> >>) }

InitConfig ==
  /\ env \in { [sshd_config |-> <<c1, c2, c3>>] :
               c1 \in {None} \cup ConfigFiles,
               c2 \in LaterConfigFiles, c3 \in LaterConfigFiles }
  /\ users = <<alice>>
  /\ patterns = <<>>
  /\ assignments = <<>>
  /\ euid = 0
  /\ dry_run = TRUE
  /\ fs = EmptyFs
  /\ pc = "config"
  /\ auth_files = <<>>
  /\ idx = 1
  /\ stats = ZeroStats
  /\ pass = 1
  /\ fs_start = fs
  /\ prev = NoPrev
  /\ last = NoLast
  /\ results = <<>>
  /\ faults = 0
  /\ NoWrite
  /\ run = NoRun

\* 168: discover_authorized_keys_files first asks for the patterns; the
\* rest of the discovery is SyncBegin.
ReadConfig ==
  /\ pc = "config"
  /\ patterns' = get_authorized_keys_patterns(env.sshd_config)
  /\ pc' = "start"
  /\ UNCHANGED << run, env, users, assignments, euid, dry_run, fs, auth_files, idx,
                  stats, pass, fs_start, prev, last, results, faults, wvars >>

NextConfig ==
  \/ ReadConfig
  \/ Next

SpecConfig == InitConfig /\ [][NextConfig]_vars

\* The name of the directive of a line and its values: the first of the
\* whitespace-separated words, and the words after it.
DirectiveName(line) == Head(split_whitespace(line))
DirectiveValues(line) == Tail(split_whitespace(line))

\* The values of the AuthorizedKeysFile directives of a file, in order.
RECURSIVE DeclaredValues(_)
DeclaredValues(lines) ==
  IF lines = <<>> THEN <<>>
  ELSE LET w == split_whitespace(Head(lines))
       IN (IF w # <<>> /\ Head(w) # <<>> /\ Head(Head(w)) # "#"
              /\ DirectiveName(Head(lines)) = <<Keyword>>
           THEN DirectiveValues(Head(lines)) ELSE <<>>)
          \o DeclaredValues(Tail(lines))

\* C21. Pattern source: the patterns are the values of the
\* AuthorizedKeysFile directives of the first config file that can be read,
\* in declaration order, no other directive contributes; without a
\* readable file or a value the list is ['.ssh/authorized_keys'].
C21_PatternSource ==
  (pc # "config") =>
    LET readable == { i \in 1..3 : env.sshd_config[i].some }
        first == CHOOSE i \in readable : \A j \in readable : i <= j
        declared == IF readable = {} THEN <<>>
                    ELSE DeclaredValues(env.sshd_config[first].val)
    IN patterns = IF declared = <<>> THEN << PatDefault >> ELSE declared

(***************************************************************************)
(* collect_users (users.rs 19-68).  /etc/passwd is env.passwd, a sequence  *)
(* of lines, each line the sequence of its ':'-separated fields; the       *)
(* process is env.current (getuid and the variables USER, USERNAME, HOME,  *)
(* SHELL); env.user_mode, env.include_users and env.exclude_users are the  *)
(* arguments.                                                              *)
(***************************************************************************)
\* str::parse::<u32>: Ok(n) for a field that is a decimal numeral.
ParseU32(field) ==
  CASE field = <<"0">> -> Some(0)
    [] field = <<"1">> -> Some(1)
    [] field = <<"999">> -> Some(999)
    [] field = <<"1000">> -> Some(1000)
    [] field = <<"1001">> -> Some(1001)
    [] field = <<"1002">> -> Some(1002)
    [] field = <<"1004">> -> Some(1004)
    [] OTHER -> None

\* unwrap_or_continue (175-179) is unwrap_or_default: 0 for a field that
\* does not parse.
unwrap_or_continue(r) == IF r.some THEN r.val ELSE 0

NologinShells ==
  { <<"/", "usr", "/", "sbin", "/", "nologin">>, <<"/", "sbin", "/", "nologin">>,
    <<"/", "bin", "/", "false">>, <<"/", "usr", "/", "bin", "/", "false">> }

\* 111-165: the UserInfo of one passwd line, or nothing.
UserOfPasswdLine(parts) ==
  IF parts = << <<>> >> \/ (Head(parts) # <<>> /\ Head(Head(parts)) = "#")
  THEN <<>>
  ELSE IF Len(parts) < 7 THEN <<>>
  ELSE LET username == parts[1]
           uid == unwrap_or_continue(ParseU32(parts[3]))
           shell == parts[7]
           home_dir == parts[6]
       IN IF uid # 0 /\ uid < 1000 THEN <<>>
          ELSE IF shell \in NologinShells THEN <<>>
          ELSE << [username |-> username,
                   uid |-> uid,
                   shell |-> IF shell = <<>> THEN Some(<<"/", "bin", "/", "bash">>)
                             ELSE Some(shell),
                   home_dir |-> IF home_dir = <<>>
                                THEN (IF uid = 0 THEN Some(<<"/", "root">>)
                                      ELSE Some(<<"/", "home", "/">> \o username))
                                ELSE Some(home_dir)] >>

RECURSIVE parse_passwd_file(_)
parse_passwd_file(lines) ==
  IF lines = <<>> THEN <<>>
  ELSE UserOfPasswdLine(Head(lines)) \o parse_passwd_file(Tail(lines))

\* 70-85: Err when neither USER nor USERNAME is set.
get_current_user(cur) ==
  LET name == IF cur.USER.some THEN cur.USER ELSE cur.USERNAME
  IN [ok |-> name.some,
      user |-> [username |-> name.val, uid |-> cur.uid, shell |-> cur.SHELL,
                home_dir |-> cur.HOME]]

RECURSIVE InsertByUid(_, _)
InsertByUid(u, sorted) ==
  IF sorted = <<>> THEN <<u>>
  ELSE IF Head(sorted).uid <= u.uid
       THEN <<Head(sorted)>> \o InsertByUid(u, Tail(sorted))
       ELSE <<u>> \o sorted

RECURSIVE SortByUid(_, _)
\* 65: users.sort_by_key(|u| u.uid), a stable sort.
SortByUid(us, sorted) ==
  IF us = <<>> THEN sorted
  ELSE SortByUid(Tail(us), InsertByUid(Head(us), sorted))

Contains(names, name) == \E i \in 1..Len(names) : names[i] = name

collect_users(e) ==
  LET cur == get_current_user(e.current)
      all == IF e.user_mode THEN <<cur.user>> ELSE parse_passwd_file(e.passwd)
      kept == IF e.include_users # <<>>
              THEN SelectSeq(all, LAMBDA u : Contains(e.include_users, u.username))
              ELSE IF e.exclude_users # <<>>
              THEN SelectSeq(all, LAMBDA u : ~Contains(e.exclude_users, u.username))
              ELSE all
  IN IF e.user_mode /\ ~cur.ok THEN [ok |-> FALSE, users |-> <<>>]
     ELSE [ok |-> TRUE, users |-> SortByUid(kept, <<>>)]

MaxPasswdLines == 2

\* A passwd line name:x:uid:gid:gecos:home:shell.
PasswdLine(name, uid, home, shell) ==
  << <<name>>, <<"x">>, <<uid>>, <<uid>>, <<>>, home, shell >>

PasswdLines ==
  { PasswdLine("root", "0", <<"/", "root">>, <<"/", "bin", "/", "bash">>),
    PasswdLine("daemon", "1", <<"/", "usr", "/", "sbin">>,
               <<"/", "usr", "/", "sbin", "/", "nologin">>),
    PasswdLine("svc", "999", <<"/", "var", "/", "svc">>, <<"/", "bin", "/", "sh">>),
    PasswdLine("alice", "1000", <<"/", "home", "/", "alice">>,
               <<"/", "bin", "/", "bash">>),
    PasswdLine("bob", "1001", <<"/", "home", "/", "bob">>, <<"/", "bin", "/", "sh">>),
    PasswdLine("guest", "1002", <<"/", "home", "/", "guest">>,
               <<"/", "bin", "/", "false">>),
    PasswdLine("eve", "1004", <<>>, <<>>),
    PasswdLine("odd", "x1", <<"/", "home", "/", "odd">>, <<"/", "bin", "/", "sh">>),
    << <<"short">>, <<"x">>, <<"1000">> >>,
    << <<"#", "alice">>, <<"x">>, <<"1000">>, <<"1000">>, <<>>,
       <<"/", "home", "/", "alice">>, <<"/", "bin", "/", "bash">> >>,
    << <<>> >> }

\* The processes that run the agent in user mode.
NoCurrent == [uid |-> 0, USER |-> None, USERNAME |-> None, HOME |-> None,
              SHELL |-> None]
Currents ==
  { [uid |-> 1000, USER |-> Some(<<"alice">>), USERNAME |-> None,
     HOME |-> Some(<<"/", "home", "/", "alice">>),
     SHELL |-> Some(<<"/", "bin", "/", "bash">>)],
    [uid |-> 501, USER |-> Some(<<"dev">>), USERNAME |-> None,
     HOME |-> Some(<<"/", "Users", "/", "dev">>),
     SHELL |-> Some(<<"/", "bin", "/", "zsh">>)],
    [uid |-> 1001, USER |-> None, USERNAME |-> Some(<<"bob">>),
     HOME |-> None, SHELL |-> Some(<<"/", "sbin", "/", "nologin">>)],
    NoCurrent }

\* main.rs 40 refuses a run with both lists.
UserFilters ==
  { [include_users |-> <<>>, exclude_users |-> <<>>],
    [include_users |-> << <<"alice">>, <<"dev">> >>, exclude_users |-> <<>>],
    [include_users |-> <<>>, exclude_users |-> << <<"alice">> >>] }

UserEnvs ==
  { [passwd |-> p, user_mode |-> FALSE, current |-> NoCurrent,
     include_users |-> f.include_users, exclude_users |-> f.exclude_users] :
    p \in SeqsUpTo(PasswdLines, MaxPasswdLines), f \in UserFilters }
  \cup
  { [passwd |-> <<>>, user_mode |-> TRUE, current |-> c,
     include_users |-> f.include_users, exclude_users |-> f.exclude_users] :
    c \in Currents, f \in UserFilters }

InitUsers ==
  /\ env \in UserEnvs
  /\ users = <<>>
  /\ patterns = <<PatDefault>>
  /\ assignments = <<>>
  /\ euid = 0
  /\ dry_run = TRUE
  /\ fs = EmptyFs
  /\ pc = "collect"
  /\ auth_files = <<>>
  /\ idx = 1
  /\ stats = ZeroStats
  /\ pass = 1
  /\ fs_start = fs
  /\ prev = NoPrev
  /\ last = NoLast
  /\ results = <<>>
  /\ faults = 0
  /\ NoWrite
  /\ run = NoRun

\* main.rs 121: run_report_cycle collects the users it later hands to
\* sync_ssh_keys (164); an Err ends the cycle.
CollectUsers ==
  /\ pc = "collect"
  /\ \E r \in { collect_users(env) } :
       /\ users' = r.users
       /\ pc' = IF r.ok THEN "start" ELSE "failed"
  /\ UNCHANGED << run, env, patterns, assignments, euid, dry_run, fs, auth_files,
                  idx, stats, pass, fs_start, prev, last, results, faults,
                  wvars >>

NextUsers ==
  \/ CollectUsers
  \/ Next

SpecUsers == InitUsers /\ [][NextUsers]_vars

\* C25. User filter: every user collect_users returns, and every user a
\* discovered file belongs to, has uid 0 or uid >= 1000 and a shell that is
\* none of the nologin shells.
C25_UserFilter ==
  (pc \notin { "collect", "failed" }) =>
    /\ \A i \in 1..Len(users) :
         /\ users[i].uid = 0 \/ users[i].uid >= 1000
         /\ ~(users[i].shell.some /\ users[i].shell.val \in NologinShells)
    /\ \A i \in 1..Len(auth_files) :
         auth_files[i].uid = 0 \/ auth_files[i].uid >= 1000

(***************************************************************************)
(* Properties of what a write leaves behind.                               *)
(***************************************************************************)
\* C31. No temporary residue: when the write of a file has returned, with
\* Ok or with Err, the temporary file it created is not in the directory.
C31_NoTemporaryResidue ==
  (last.valid /\ last.wrote
     /\ ~FileExists(last.before, temp_path_of(last.file.path))) =>
    ~FileExists(fs, temp_path_of(last.file.path))

\* The gid chown gives to the files of an account: its primary gid, the uid
\* when the account has none recorded (496-501).
GroupOf(uid) ==
  IF get_user_primary_gid(uid).some THEN get_user_primary_gid(uid).val ELSE uid

\* C32. Parent directory ownership at end of pass: after a privileged
\* non-dry-run pass in which nothing failed, the parent directory of every
\* written file is owned by the uid and primary gid of the file's account.
C32_ParentDirectoryOwnership ==
  (CleanPassDone /\ ~dry_run /\ euid = 0) =>
    \A i \in 1..Len(results) :
      results[i].wrote =>
        /\ fs.dirs[parent(auth_files[i].path)].uid = auth_files[i].uid
        /\ fs.dirs[parent(auth_files[i].path)].gid = GroupOf(auth_files[i].uid)

(***************************************************************************)
(* The invocation: main, run_report_cycle and ApiClient::report_with_retry *)
(* (main.rs, api.rs).  run holds the arguments, what the servers answer    *)
(* (net), the position in main (mpc) and what has been done so far.        *)
(***************************************************************************)

MaxRetries == 3

\* what sync_ssh_keys works on; main leaves it alone until it calls it
syncstate ==
  << fs, pc, auth_files, idx, stats, pass, fs_start, prev, last, results,
     faults, wvars >>

\* sync_ssh_keys has not been called
IdleSync ==
  /\ pc = "idle"
  /\ auth_files = <<>>
  /\ idx = 1
  /\ stats = ZeroStats
  /\ pass = 1
  /\ fs_start = fs
  /\ prev = NoPrev
  /\ last = NoLast
  /\ results = <<>>
  /\ faults = 0
  /\ NoWrite

\* main.rs 142: report_with_retry(&report, 3)
ReportRetries == 3

\* what one call of report_agent_data can end with (api.rs 116-169)
ReportOutcomes ==
  { "ok", "unreachable", "upgrade_required", "server_error",
    "server_error_about_version" }

\* the parts of the error message the retry loop looks for; the text of an
\* HTTP error quotes the body the server sent (api.rs 129, 146-167)
error_msg(kind) ==
  CASE kind = "unreachable" -> << "Agent report request failed" >>
    [] kind = "upgrade_required" ->
         << "Agent version", "too old", "Please update the agent." >>
    [] kind = "server_error" -> << "HTTP error" >>
    [] kind = "server_error_about_version" ->
         << "HTTP error", "Agent version", "too old" >>
    [] OTHER -> << >>

ErrorOf(attempt, kind) == [attempt |-> attempt, kind |-> kind]

NoError == ErrorOf(0, "none")

AllRetriesFailed == ErrorOf(0, "All retry attempts failed")

\* Faulty variant: no error is recognised as a version error.
is_version_error_never(kind) == FALSE

is_version_error(kind) ==
  Contains(error_msg(kind), "Agent version") /\ Contains(error_msg(kind), "too old")

\* Faulty variant: a delay follows every failed attempt.
should_sleep_always(attempt, max_retries) == TRUE

should_sleep(attempt, max_retries) == attempt < max_retries

\* 2u64.pow(attempt - 1): a u64 holds it for every attempt up to 64
backoff(attempt) == 2 ^ (attempt - 1)

NotReported == [state |-> "none", err |-> NoError]

\* the invocation before main has done anything
NewRun(args, net, max_retries, mpc) ==
  [ mpc |-> mpc, args |-> args, net |-> net, max_retries |-> max_retries,
    attempt |-> 1, calls |-> 0, sleeps |-> << >>, last_error |-> NoError,
    report |-> NotReported, health |-> "none", fetched |-> FALSE,
    update |-> "none",
    bin |-> [exe |-> "old", backup |-> FALSE, temp |-> FALSE,
            downloaded |-> FALSE],
    exit |-> [how |-> "running", err |-> NoError] ]

\* one turn of the loop of report_with_retry: the call and what follows it
RetryAttempt ==
  /\ run.mpc = "report"
  /\ run.attempt <= run.max_retries
  /\ LET kind == run.net.report[run.attempt]
         e == ErrorOf(run.attempt, kind)
     IN  run' =
           IF kind = "ok"
             THEN [run EXCEPT !.calls = @ + 1, !.mpc = "reported",
                              !.report = [state |-> "ok", err |-> NoError]]
           ELSE IF is_version_error(kind)
             THEN [run EXCEPT !.calls = @ + 1, !.mpc = "reported",
                              !.report = [state |-> "err", err |-> e]]
           ELSE IF should_sleep(run.attempt, run.max_retries)
             THEN [run EXCEPT !.calls = @ + 1, !.last_error = e,
                              !.mpc = "sleep"]
           ELSE [run EXCEPT !.calls = @ + 1, !.last_error = e,
                            !.attempt = @ + 1]
  /\ UNCHANGED << env, users, patterns, assignments, euid, dry_run, syncstate >>

RetrySleep ==
  /\ run.mpc = "sleep"
  /\ run' = [run EXCEPT !.sleeps = Append(@, backoff(run.attempt)),
                        !.attempt = @ + 1, !.mpc = "report"]
  /\ UNCHANGED << env, users, patterns, assignments, euid, dry_run, syncstate >>

\* the loop is over without a return
RetryExhausted ==
  /\ run.mpc = "report"
  /\ run.attempt > run.max_retries
  /\ run' = [run EXCEPT
               !.mpc = "reported",
               !.report = [state |-> "err",
                           err |-> IF run.last_error = NoError
                                     THEN AllRetriesFailed
                                     ELSE run.last_error]]
  /\ UNCHANGED << env, users, patterns, assignments, euid, dry_run, syncstate >>

ReportAnswers == [1..MaxRetries -> ReportOutcomes]

NoArgs == << >>

InitRetry ==
  /\ \E answers \in ReportAnswers, max_retries \in 0..MaxRetries :
       run = NewRun(NoArgs, [report |-> answers], max_retries, "report")
  /\ env = NoEnv
  /\ users = << alice >>
  /\ patterns = << PatDefault >>
  /\ assignments = << >>
  /\ euid = 0
  /\ dry_run = FALSE
  /\ fs = EmptyFs
  /\ IdleSync

NextRetry ==
  \/ RetryAttempt
  \/ RetrySleep
  \/ RetryExhausted

\* the runtime runs the one task of main: a call that has answered and a
\* sleep that is over are followed by the next step of the loop
SpecRetry == InitRetry /\ [][NextRetry]_vars /\ WF_vars(NextRetry)

(***************************************************************************)
(* Properties of report_with_retry.                                        *)
(***************************************************************************)
Returned == run.mpc = "reported"

\* the calls made so far are within max_retries, a success ends the loop
\* at once, and the delays are 1, 2, 4, ... seconds, each one between two
\* attempts
RetryWithinBounds ==
  /\ run.calls <= run.max_retries
  /\ Len(run.sleeps) <= run.calls
  /\ \A i \in 1..Len(run.sleeps) : run.sleeps[i] = 2 ^ (i - 1)
  /\ \A k \in 1..(run.calls - 1) : run.net.report[k] # "ok"
  /\ (Returned /\ run.calls > 0) => Len(run.sleeps) = run.calls - 1
  /\ (Returned /\ run.report.state = "ok") =>
       /\ run.calls > 0
       /\ run.net.report[run.calls] = "ok"

\* a failed report_with_retry returns the error of the last attempt made
ErrorOfLastAttempt ==
  /\ run.calls > 0
  /\ run.report.err = ErrorOf(run.calls, run.net.report[run.calls])

C34_VersionErrorsNotRetried ==
  \A k \in 1..run.calls :
    run.net.report[k] = "upgrade_required" =>
      /\ Returned
      /\ run.report = [state |-> "err", err |-> ErrorOf(k, "upgrade_required")]
      /\ run.calls = k
      /\ Len(run.sleeps) = k - 1

\* the second of three attempts was answered with 426
C34_Witness ==
  /\ Returned
  /\ run.max_retries = MaxRetries
  /\ run.calls = 2
  /\ run.net.report[2] = "upgrade_required"
  /\ run.sleeps = << 1 >>

(***************************************************************************)
(* UpdateManager (update.rs).  A version is the sequence of the parts      *)
(* between the dots, each one what parse::<u32> makes of it: Some(n), or   *)
(* None for a part that is not a number; v says whether the text starts    *)
(* with 'v'.  The binary is "old" or "new", next to it there may be        *)
(* <exe>.backup and <exe>.new.                                             *)
(***************************************************************************)
RECURSIVE NumericParts(_)
\* filter_map(|s| s.parse().ok()): the parts that are not numbers are left out
NumericParts(parts) ==
  IF parts = << >> THEN << >>
  ELSE IF Head(parts).some
    THEN << Head(parts).val >> \o NumericParts(Tail(parts))
    ELSE NumericParts(Tail(parts))

Padded(parts, len) == [i \in 1..len |-> IF i <= Len(parts) THEN parts[i] ELSE 0]

\* Vec<u32> > Vec<u32> of the same length
VecGreater(a, b) ==
  \E i \in 1..Len(a) :
    /\ a[i] > b[i]
    /\ \A j \in 1..(i - 1) : a[j] = b[j]

is_newer_version(current, latest) ==
  LET current_parts == NumericParts(current.parts)
      latest_parts == NumericParts(latest.parts)
      max_len == IF Len(current_parts) > Len(latest_parts)
                   THEN Len(current_parts) ELSE Len(latest_parts)
  IN  VecGreater(Padded(latest_parts, max_len), Padded(current_parts, max_len))

\* get_current_binary_name on this platform
BinaryName == "publikey-agent-linux-x64"

find_platform_asset(release) == BinaryName \in release.assets

\* what the environment can refuse during download_and_install
InstallFaults ==
  { "none", "download", "size", "backup", "write", "chmod", "rename" }

Binary(exe, backup, temp, downloaded) ==
  [exe |-> exe, backup |-> backup, temp |-> temp, downloaded |-> downloaded]

\* download_and_install: Ok or Err, and the files next to the binary
download_and_install(bin, dry, fault) ==
  IF dry
    THEN [ok |-> TRUE, bin |-> bin]
  ELSE IF fault = "download"
    THEN [ok |-> FALSE, bin |-> bin]
  ELSE IF fault = "size"
    THEN [ok |-> FALSE, bin |-> Binary(bin.exe, bin.backup, bin.temp, TRUE)]
  ELSE IF fault = "backup"
    THEN [ok |-> FALSE, bin |-> Binary(bin.exe, bin.backup, bin.temp, TRUE)]
  ELSE IF fault = "write"
    THEN [ok |-> FALSE, bin |-> Binary(bin.exe, TRUE, bin.temp, TRUE)]
  ELSE IF fault \in { "chmod", "rename" }
    THEN [ok |-> FALSE, bin |-> Binary(bin.exe, TRUE, TRUE, TRUE)]
  ELSE [ok |-> TRUE, bin |-> Binary("new", TRUE, FALSE, TRUE)]

Unreachable == [reachable |-> FALSE]

\* check_and_update: "true", "false" or "err", and the files afterwards
check_and_update(release, current, bin, dry, install, fault) ==
  IF ~release.reachable
    THEN [result |-> "err", bin |-> bin]
  ELSE IF release.draft \/ release.prerelease
    THEN [result |-> "false", bin |-> bin]
  ELSE IF is_newer_version(current, release.tag_name)
    THEN IF ~install
           THEN [result |-> "false", bin |-> bin]
         ELSE IF ~find_platform_asset(release)
           THEN [result |-> "err", bin |-> bin]
         ELSE LET r == download_and_install(bin, dry, fault)
              IN  [result |-> IF r.ok THEN "true" ELSE "err", bin |-> r.bin]
  ELSE [result |-> "false", bin |-> bin]

\* Faulty variant: an update that was not installed does not end main.
ReturnsAfterUpdate_installed_only(check_update, update, installed) ==
  \/ update /\ installed
  \/ check_update /\ ~update

\* main.rs 52-65: the three returns after check_and_update
ReturnsAfterUpdate(check_update, update, installed) ==
  \/ update /\ installed
  \/ check_update /\ ~update
  \/ update /\ ~installed

(***************************************************************************)
(* main and run_report_cycle (main.rs).                                    *)
(***************************************************************************)
mainvars == << env, users, patterns, euid, dry_run >>

\* main is over: Ok(()), Err(err) or exit(1)
Exit(r, how, err) ==
  [r EXCEPT !.mpc = "exited", !.exit = [how |-> how, err |-> err]]

UpdateError == ErrorOf(0, "update failed")
MissingArgument == ErrorOf(0, "--endpoint and --token are required")

\* main.rs 39-46: the two user filters exclude each other; then the update
\* block or the normal operation
MainStart ==
  /\ run.mpc = "main"
  /\ run' = IF run.args.include_users /\ run.args.exclude_users
              THEN Exit(run, "exit(1)", NoError)
            ELSE IF run.args.check_update \/ run.args.update
              THEN [run EXCEPT !.mpc = "update"]
            ELSE [run EXCEPT !.mpc = "required"]
  /\ UNCHANGED << mainvars, assignments, syncstate >>

\* main.rs 47-66: check_and_update and the returns that follow it
MainUpdate ==
  /\ run.mpc = "update"
  /\ \E r \in { check_and_update(run.net.release, run.args.agent_version,
                                 run.bin, run.args.dry_run, run.args.update,
                                 run.net.fault) } :
       run' =
         LET done == [run EXCEPT !.update = r.result, !.bin = r.bin]
         IN  IF r.result = "err"
               THEN Exit(done, "err", UpdateError)
             ELSE IF ReturnsAfterUpdate(run.args.check_update, run.args.update,
                                        r.result = "true")
               THEN Exit(done, "ok", NoError)
             ELSE [done EXCEPT !.mpc = "required"]
  /\ UNCHANGED << mainvars, assignments, syncstate >>

\* main.rs 69-72: --endpoint and --token are required from here on
MainRequired ==
  /\ run.mpc = "required"
  /\ run' = IF run.args.endpoint /\ run.args.token
              THEN [run EXCEPT !.mpc = "health"]
              ELSE Exit(run, "err", MissingArgument)
  /\ UNCHANGED << mainvars, assignments, syncstate >>

\* main.rs 76-90: every outcome of the health check continues
ContinuesAfterHealth(health) == health \in { "true", "false", "err" }

\* main.rs 74-94, 115-142: the health check, then run_report_cycle collects
\* and reaches report_with_retry(&report, 3)
MainHealth ==
  /\ run.mpc = "health"
  /\ run' = IF ContinuesAfterHealth(run.net.health)
              THEN [run EXCEPT !.health = run.net.health, !.mpc = "report",
                               !.max_retries = ReportRetries, !.attempt = 1]
              ELSE Exit([run EXCEPT !.health = run.net.health], "err",
                        ErrorOf(0, "unhealthy"))
  /\ UNCHANGED << mainvars, assignments, syncstate >>

\* Faulty variant: the assignments are fetched whatever the report returned.
ReportAccepted_always(report) == TRUE

ReportAccepted(report) == report.state = "ok"

\* main.rs 142, 98-108: `?` on the result of report_with_retry
CycleReported ==
  /\ run.mpc = "reported"
  /\ run' = IF ReportAccepted(run.report)
              THEN [run EXCEPT !.mpc = "fetch"]
              ELSE Exit(run, "err", run.report.err)
  /\ UNCHANGED << mainvars, assignments, syncstate >>

NoAssignments == [kind |-> "none"]
FetchFailed == [kind |-> "err"]
AssignmentsList(list) == [kind |-> "list", list |-> list]

\* Faulty variant: a response without a list is an empty list.
assignments_of_or_empty(keys) ==
  IF keys.kind = "list" THEN Some(keys.list)
  ELSE IF keys.kind = "none" THEN Some(<< >>)
  ELSE None

\* main.rs 152-158: Ok(key_response) with Some(assignments)
assignments_of(keys) ==
  IF keys.kind = "list" THEN Some(keys.list) ELSE None

\* main.rs 152-164, 183-190: get_key_assignments, then sync_ssh_keys is
\* called or the cycle is over
CycleFetch ==
  /\ run.mpc = "fetch"
  /\ pc = "idle"
  /\ \E a \in { assignments_of(run.net.keys) } :
       IF a.some
         THEN /\ run' = [run EXCEPT !.fetched = TRUE, !.mpc = "sync"]
              /\ assignments' = a.val
              /\ pc' = "start"
         ELSE /\ run' = Exit([run EXCEPT !.fetched = TRUE], "ok", NoError)
              /\ UNCHANGED << assignments, pc >>
  /\ UNCHANGED << mainvars, fs, auth_files, idx, stats, pass, fs_start, prev,
                  last, results, faults, wvars >>

\* main.rs 165-193, 95-111: sync_ssh_keys has returned, the cycle and main
\* return Ok
CycleSynced ==
  /\ run.mpc = "sync"
  /\ pc = "done"
  /\ run' = Exit(run, "ok", NoError)
  /\ UNCHANGED << mainvars, assignments, syncstate >>

\* the version of this build and the tags a release can carry
\* 1.2.0; v1.2.0, v1.3, 1.1.9 and v2.0.0-rc1
CurrentVersion == [v |-> FALSE, parts |-> << Some(1), Some(2), Some(0) >>]
ReleaseTags ==
  { [v |-> TRUE, parts |-> << Some(1), Some(2), Some(0) >>],
    [v |-> TRUE, parts |-> << Some(1), Some(3) >>],
    [v |-> FALSE, parts |-> << Some(1), Some(1), Some(9) >>],
    [v |-> TRUE, parts |-> << Some(2), Some(0), None >>] }

Releases ==
  { Unreachable } \cup
  { [reachable |-> TRUE, tag_name |-> t, draft |-> d, prerelease |-> p,
     assets |-> a] :
    t \in ReleaseTags, d \in BOOLEAN, p \in BOOLEAN,
    a \in { {}, { BinaryName } } }

ArgsOf(check_update, update, dry, endpoint, token, include, exclude) ==
  [ check_update |-> check_update, update |-> update, dry_run |-> dry,
    endpoint |-> endpoint, token |-> token, include_users |-> include,
    exclude_users |-> exclude, agent_version |-> CurrentVersion ]

\* the flags of a normal invocation
NormalArgs ==
  { ArgsOf(FALSE, FALSE, d, e, t, i, x) :
    d \in BOOLEAN, e \in BOOLEAN, t \in BOOLEAN, i \in BOOLEAN, x \in BOOLEAN }

\* the flags of an invocation with --check-update or --update
UpdateArgs ==
  { ArgsOf(c, u, d, TRUE, TRUE, FALSE, FALSE) :
    c \in BOOLEAN, u \in BOOLEAN, d \in BOOLEAN } \ NormalArgs

MainReportAnswers ==
  [1..ReportRetries -> { "ok", "unreachable", "upgrade_required" }]

KeyResponses ==
  { FetchFailed, NoAssignments, AssignmentsList(<< >>),
    AssignmentsList(<< [username |-> << "alice" >>, public_key |-> LineK2] >>) }

NetOf(health, report, keys, release, fault) ==
  [ health |-> health, report |-> report, keys |-> keys,
    release |-> release, fault |-> fault ]

AllOk == [i \in 1..ReportRetries |-> "ok"]

InitMain ==
  /\ \/ \E a \in NormalArgs, h \in { "true", "false", "err" },
           r \in MainReportAnswers, k \in KeyResponses :
          run = NewRun(a, NetOf(h, r, k, Unreachable, "none"), 0, "main")
     \/ \E a \in UpdateArgs, rel \in Releases, f \in InstallFaults :
          run = NewRun(a, NetOf("true", AllOk,
                                AssignmentsList(<< >>), rel, f), 0, "main")
  /\ env = NoEnv
  /\ users = << alice >>
  /\ patterns = << PatDefault >>
  /\ assignments = << >>
  /\ euid = 0
  /\ dry_run = run.args.dry_run
  /\ fs \in InitialFileSystems(users, patterns)
  /\ IdleSync

NextMain ==
  \/ MainStart
  \/ MainUpdate
  \/ MainRequired
  \/ MainHealth
  \/ RetryAttempt
  \/ RetrySleep
  \/ RetryExhausted
  \/ CycleReported
  \/ CycleFetch
  \/ SyncBegin
  \/ SyncFile(NoFail)
  \/ SyncReturn
  \/ CycleSynced

SpecMain == InitMain /\ [][NextMain]_vars

(***************************************************************************)
(* Properties of main and run_report_cycle.                                *)
(***************************************************************************)
Exited == run.mpc = "exited"

\* sync_ssh_keys was not called and no file changed
NothingSynced ==
  /\ pc = "idle"
  /\ last = NoLast
  /\ fs = fs_start

\* a normal invocation with everything main requires
NormalOperation ==
  /\ ~run.args.check_update /\ ~run.args.update
  /\ ~(run.args.include_users /\ run.args.exclude_users)
  /\ run.args.endpoint /\ run.args.token

\* C35. Sync only after an accepted report: no authorized_keys file is read
\* or modified unless report_with_retry has succeeded before; when the
\* report fails, main ends with that error and nothing was fetched or
\* synced; whatever the health check says, the report is attempted and,
\* when it is accepted and assignments arrive, the sync runs.
C35_SyncOnlyAfterAcceptedReport ==
  /\ run.report.state # "ok" => NothingSynced /\ ~run.fetched
  /\ (Exited /\ run.report.state = "err") =>
       run.exit = [how |-> "err", err |-> run.report.err]
  /\ (Exited /\ NormalOperation) =>
       /\ run.health = run.net.health
       /\ run.calls >= 1
       /\ (run.report.state = "ok" /\ run.net.keys.kind = "list") =>
            pc = "done" /\ run.exit.how = "ok"

\* the health check failed with an error, the report was accepted and the
\* sync rewrote a file
C35_Witness ==
  /\ Exited
  /\ run.health = "err"
  /\ run.report.state = "ok"
  /\ pc = "done"
  /\ fs # fs_start

\* C36. No assignments, no mutation: when fetching the key assignments
\* fails or the response carries no assignments list, sync_ssh_keys is not
\* called, no file is modified, and the cycle that fetched returns success.
C36_NoAssignmentsNoMutation ==
  run.net.keys.kind \in { "err", "none" } =>
    /\ NothingSynced
    /\ (Exited /\ run.fetched) => run.exit = [how |-> "ok", err |-> NoError]

\* a real run over an existing file ended after a response without a list
C36_Witness ==
  /\ Exited
  /\ run.fetched
  /\ run.net.keys = NoAssignments
  /\ ~dry_run
  /\ DOMAIN fs.files # {}
  /\ run.exit.how = "ok"

\* C37. Update invocations do nothing else: with --check-update or --update
\* main ends after the update step, whatever check_and_update returned; no
\* health check, report, fetch or sync happens in that invocation.
C37_UpdateInvocationsDoNothingElse ==
  (run.args.check_update \/ run.args.update) =>
    /\ run.mpc \in { "main", "update", "exited" }
    /\ run.health = "none"
    /\ run.calls = 0
    /\ run.report = NotReported
    /\ ~run.fetched
    /\ NothingSynced

\* --update found nothing to install and main ended
C37_Witness ==
  /\ Exited
  /\ run.args.update
  /\ run.update = "false"
  /\ run.exit.how = "ok"

\* C38. Installed means replaced: check_and_update returns true only when
\* a newer release that is neither draft nor prerelease was downloaded and
\* the running binary was replaced by it; in a dry run the binary is not
\* replaced and neither the backup nor the temporary file is written.
C38_InstalledMeansReplaced ==
  /\ run.update = "true" =>
       /\ run.net.release.reachable
       /\ ~run.net.release.draft
       /\ ~run.net.release.prerelease
       /\ is_newer_version(run.args.agent_version, run.net.release.tag_name)
       /\ run.bin.downloaded
       /\ run.bin.exe = "new"
  /\ run.args.dry_run => run.bin = Binary("old", FALSE, FALSE, FALSE)

====
